---- MODULE Spec2Model ----
(***************************************************************************)
(* Model of the IOx catalog: the lifecycle state machine of a catalog      *)
(* chunk (server/src/db/catalog/chunk.rs), the chunk identifiers and       *)
(* orders (data_types/src/chunk_metadata.rs) and the table / partition /   *)
(* chunk tree of the catalog (server/src/db/catalog.rs).                   *)
(***************************************************************************)
EXTENDS Integers, Sequences, FiniteSets, TLC

(***************************************************************************)
(* Bounds                                                                  *)
(***************************************************************************)
\* wall-clock readings Utc::now() can return are 0..MaxTime
MaxTime == 2
\* number of record_write calls followed on one chunk
MaxWrites == 3
\* number of create_open_chunk calls followed on one catalog
MaxCreated == 2
\* number of catalog calls followed while threads run concurrently
MaxOps == 3
\* number of catalog calls followed when every thread is scheduled fairly
MaxFairOps == 2
\* number of ChunkOrder::next calls followed on one order
MaxNexts == 2
\* number of row groups followed in one read buffer chunk
MaxRowGroups == 2
\* the number of writes the HTTP route hands to the server
MaxWriteCalls == 2

Times == 0 .. MaxTime

\* Option<T>: None is the empty tuple, Some(x) the one-element tuple
None == << >>
Some(x) == << x >>
\* the elements of a sequence
Range(q) == { q[i] : i \in 1 .. Len(q) }

(***************************************************************************)
(* Catalog chunk: server/src/db/catalog/chunk.rs                           *)
(***************************************************************************)
\* partition keys and u32 chunk ids a chunk is constructed with
PartitionKeys == {"p1", "p2"}
ChunkIdsU32 == {0, 1}
\* the read buffer handles and parquet chunks handed to set_moved and
\* set_written_to_object_store
ReadBufferDbs == {"rb1", "rb2"}
ParquetChunks == {"pq1", "pq2"}

VARIABLES
    partition_key,        \* Chunk.partition_key
    id,                   \* Chunk.id
    state,                \* Chunk.state: <<variant, payload...>>
    time_of_first_write,  \* Chunk.time_of_first_write: Option<DateTime>
    time_of_last_write,   \* Chunk.time_of_last_write: Option<DateTime>
    time_closing,         \* Chunk.time_closing: Option<DateTime>
    writes,               \* history: the clock readings of the record_write calls, in call order
    tables,               \* Catalog.tables: table name -> (partition key -> Partition)
    tables_order,         \* the order in which the hash map Catalog.tables iterates its keys
    wire_summary,         \* the ChunkSummary that was encoded last, if the message at hand is its encoding
    wire_proto,           \* the management::Chunk message at hand, if any
    pc,                   \* per thread: the catalog call it is in [op, at, want, held, todo, chunks, acc, arg]
    locks,                \* per RwLock of the catalog: the threads holding it [readers, writer]
    snaps,                \* history: per thread, the values Catalog.tables took since its traversal locked the root
    budget,               \* the number of concurrent catalog calls the threads will still make
    order_arg,            \* the u32 handed to ChunkOrder::new
    order_obj,            \* the ChunkOrder at hand: Option<ChunkOrder>
    order_nexts,          \* history: the number of ChunkOrder::next calls made
    rb_registry,          \* metric::Registry: the value of every read buffer gauge
    rb_chunks,            \* the read buffer chunks alive, per slot: Option<[metrics, table]>
    rb_table,             \* the row groups of the read buffer chunk that is queried, in insertion order
    rb_query,             \* the arguments of the query: [predicate, negated_predicates, columns, dst_names, dst_values]
    http_req,             \* the HTTP request handled last, if any: Option<[method, path, query, body]>
    http_writes,          \* history: the database names ServerType::write was invoked with, in call order
    http_lp_metrics,      \* history: the LineProtocolMetrics::record_write calls [db_name, ok], in call order
    chunk_lock,           \* the RwLock around the catalog chunk: [readers, writer]
    chunk_pc,             \* per thread: the call on the chunk it is in [op, at, s, arg, before, seen]
    cc_chunks,            \* the (TableSummary, DetailedChunkSummary) pairs system.chunk_columns is built from
    chunk_ids,            \* the ChunkIds made, per name: Option<[made_by, n, id]>
    created,              \* history: per partition, the [id, order] of the chunks created, in creation order
    ret                   \* what the last call returned: [op, kind, val, err]

chunkVars == << partition_key, id, state, time_of_first_write,
                time_of_last_write, time_closing, writes >>
catalogVars == << tables, tables_order, created >>
wireVars == << wire_summary, wire_proto >>
lockVars == << pc, locks, snaps, budget >>
orderVars == << order_arg, order_obj, order_nexts >>
\* the state of the parts modelled further below
metricVars == << rb_registry, rb_chunks >>
readVars == << rb_table, rb_query >>
httpVars == << http_req, http_writes, http_lp_metrics >>
guardVars == << chunk_lock, chunk_pc >>
sysVars == << cc_chunks >>
idVars == << chunk_ids >>
extVars == << orderVars, metricVars, readVars, httpVars, guardVars, sysVars, idVars >>

\* enum ChunkState: the variant is the first element, the payload follows
Invalid == << "Invalid" >>
Open(mb) == << "Open", mb >>
Closing(mb) == << "Closing", mb >>
Moving(mb) == << "Moving", mb >>
Moved(db) == << "Moved", db >>
WritingToObjectStore(db) == << "WritingToObjectStore", db >>
WrittenToObjectStore(db, pq) == << "WrittenToObjectStore", db, pq >>

Variant(s) == s[1]

\* ChunkState::name
ChunkState_name(s) ==
    CASE Variant(s) = "Invalid" -> "Invalid"
      [] Variant(s) = "Open" -> "Open"
      [] Variant(s) = "Closing" -> "Closing"
      [] Variant(s) = "Moving" -> "Moving"
      [] Variant(s) = "Moved" -> "Moved"
      [] Variant(s) = "WritingToObjectStore" -> "Writing to Object Store"
      [] Variant(s) = "WrittenToObjectStore" -> "Written to Object Store"

\* macro unexpected_state!: the InternalChunkState error built from the
\* chunk's own partition key and id and the name of the state passed in
unexpected_state(op, expected, s) ==
    [ error |-> "InternalChunkState",
      partition_key |-> partition_key,
      chunk_id |-> id,
      operation |-> op,
      expected |-> expected,
      actual |-> ChunkState_name(s) ]

\* results of a call
Ok(op, v) == [ op |-> op, kind |-> "Ok", val |-> v, err |-> None ]
Err(op, e) == [ op |-> op, kind |-> "Err", val |-> None, err |-> Some(e) ]
\* the call unwound from a failed assertion
Panic(op) == [ op |-> op, kind |-> "Panic", val |-> None, err |-> None ]
NoCall == [ op |-> "none", kind |-> "Ok", val |-> None, err |-> None ]

\* Chunk::new_open(partition_key, id): Chunk::new with state Open(MBChunk::new(id))
new_open(pk, i) ==
    /\ partition_key = pk
    /\ id = i
    /\ state = Open(i)
    /\ time_of_first_write = None
    /\ time_of_last_write = None
    /\ time_closing = None

\* record_write that stamps time_of_first_write on every call
record_write_always_first ==
    \E now \in Times :
        /\ Len(writes) < MaxWrites
        /\ time_of_first_write' = Some(now)
        /\ time_of_last_write' = Some(now)
        /\ writes' = Append(writes, now)
        /\ ret' = Ok("record_write", None)
        /\ UNCHANGED << extVars, lockVars, wireVars, catalogVars, partition_key, id, state, time_closing >>

\* Chunk::record_write; now is the reading of Utc::now()
record_write ==
    \E now \in Times :
        /\ Len(writes) < MaxWrites
        /\ time_of_first_write' =
              IF time_of_first_write = None THEN Some(now) ELSE time_of_first_write
        /\ time_of_last_write' = Some(now)
        /\ writes' = Append(writes, now)
        /\ ret' = Ok("record_write", None)
        /\ UNCHANGED << extVars, lockVars, wireVars, catalogVars, partition_key, id, state, time_closing >>

\* mutable_buffer that matches the Open variant only
mutable_buffer_open_only ==
    /\ ret' = IF Variant(state) = "Open"
                THEN Ok("mutable_buffer", Some(state[2]))
                ELSE Err("mutable_buffer",
                         unexpected_state("mutable buffer reference", "Open or Closing", state))
    /\ UNCHANGED << extVars, lockVars, wireVars, catalogVars, chunkVars >>

\* Chunk::mutable_buffer
mutable_buffer ==
    /\ ret' = IF Variant(state) \in {"Open", "Closing"}
                THEN Ok("mutable_buffer", Some(state[2]))
                ELSE Err("mutable_buffer",
                         unexpected_state("mutable buffer reference", "Open or Closing", state))
    /\ UNCHANGED << extVars, lockVars, wireVars, catalogVars, chunkVars >>

\* set_closing that takes a chunk in any named state back to Closing
set_closing_any_state ==
    \E now \in Times :
        LET s == state IN
        IF Variant(s) # "Invalid"
          THEN /\ time_closing' = Some(now)
               /\ state' = Closing(id)
               /\ ret' = Ok("set_closing", None)
               /\ UNCHANGED << extVars, lockVars, wireVars, catalogVars, partition_key, id, time_of_first_write,
                               time_of_last_write, writes >>
          ELSE /\ state' = s
               /\ ret' = Err("set_closing",
                             unexpected_state("setting closing", "Open or Closing", s))
               /\ UNCHANGED << extVars, lockVars, wireVars, catalogVars, partition_key, id, time_of_first_write,
                               time_of_last_write, time_closing, writes >>

\* set_closing without the assertion on time_closing
set_closing_no_assert ==
    \E now \in Times :
        LET s == state IN
        IF Variant(s) \in {"Open", "Closing"}
          THEN /\ time_closing' = Some(now)
               /\ state' = Closing(s[2])
               /\ ret' = Ok("set_closing", None)
               /\ UNCHANGED << extVars, lockVars, wireVars, catalogVars, partition_key, id, time_of_first_write,
                               time_of_last_write, writes >>
          ELSE /\ state' = s
               /\ ret' = Err("set_closing",
                             unexpected_state("setting closing", "Open or Closing", s))
               /\ UNCHANGED << extVars, lockVars, wireVars, catalogVars, partition_key, id, time_of_first_write,
                               time_of_last_write, time_closing, writes >>

\* Chunk::set_closing.  The state is swapped out for Invalid first; the
\* assertion runs before the new state is installed, so when it fails the
\* call unwinds with Invalid still in place.
set_closing ==
    \E now \in Times :
        LET s == state IN
        IF Variant(s) \in {"Open", "Closing"}
          THEN IF time_closing # None
                 THEN /\ state' = Invalid
                      /\ ret' = Panic("set_closing")
                      /\ UNCHANGED << extVars, lockVars, wireVars, catalogVars, partition_key, id, time_of_first_write,
                                      time_of_last_write, time_closing, writes >>
                 ELSE /\ time_closing' = Some(now)
                      /\ state' = Closing(s[2])
                      /\ ret' = Ok("set_closing", None)
                      /\ UNCHANGED << extVars, lockVars, wireVars, catalogVars, partition_key, id, time_of_first_write,
                                      time_of_last_write, writes >>
          ELSE /\ state' = s
               /\ ret' = Err("set_closing",
                             unexpected_state("setting closing", "Open or Closing", s))
               /\ UNCHANGED << extVars, lockVars, wireVars, catalogVars, partition_key, id, time_of_first_write,
                               time_of_last_write, time_closing, writes >>

\* set_moving that matches the Open variant only
set_moving_open_only ==
    LET s == state IN
    /\ IF Variant(s) = "Open"
         THEN /\ state' = Moving(s[2])
              /\ ret' = Ok("set_moving", Some(s[2]))
         ELSE /\ state' = s
              /\ ret' = Err("set_moving",
                            unexpected_state("setting moving", "Open or Closing", s))
    /\ UNCHANGED << extVars, lockVars, wireVars, catalogVars, partition_key, id, time_of_first_write,
                    time_of_last_write, time_closing, writes >>

\* Chunk::set_moving
set_moving ==
    LET s == state IN
    /\ IF Variant(s) \in {"Open", "Closing"}
         THEN /\ state' = Moving(s[2])
              /\ ret' = Ok("set_moving", Some(s[2]))
         ELSE /\ state' = s
              /\ ret' = Err("set_moving",
                            unexpected_state("setting moving", "Open or Closing", s))
    /\ UNCHANGED << extVars, lockVars, wireVars, catalogVars, partition_key, id, time_of_first_write,
                    time_of_last_write, time_closing, writes >>

\* set_moved that matches every variant holding a read buffer handle too
set_moved_any_read_buffer ==
    \E db \in ReadBufferDbs :
        LET s == state IN
        /\ IF Variant(s) \in {"Moving", "Moved", "WritingToObjectStore", "WrittenToObjectStore"}
             THEN /\ state' = Moved(db)
                  /\ ret' = Ok("set_moved", None)
             ELSE /\ state' = s
                  /\ ret' = Err("set_moved",
                                unexpected_state("setting moved", "Moving", s))
        /\ UNCHANGED << extVars, lockVars, wireVars, catalogVars, partition_key, id, time_of_first_write,
                        time_of_last_write, time_closing, writes >>

\* Chunk::set_moved(db)
set_moved ==
    \E db \in ReadBufferDbs :
        LET s == state IN
        /\ IF Variant(s) = "Moving"
             THEN /\ state' = Moved(db)
                  /\ ret' = Ok("set_moved", None)
             ELSE /\ state' = s
                  /\ ret' = Err("set_moved",
                                unexpected_state("setting moved", "Moving", s))
        /\ UNCHANGED << extVars, lockVars, wireVars, catalogVars, partition_key, id, time_of_first_write,
                        time_of_last_write, time_closing, writes >>

\* Chunk::set_writing_to_object_store
set_writing_to_object_store ==
    LET s == state IN
    /\ IF Variant(s) = "Moved"
         THEN /\ state' = WritingToObjectStore(s[2])
              /\ ret' = Ok("set_writing_to_object_store", Some(s[2]))
         ELSE /\ state' = s
              /\ ret' = Err("set_writing_to_object_store",
                            unexpected_state("setting object store", "Moved", s))
    /\ UNCHANGED << extVars, lockVars, wireVars, catalogVars, partition_key, id, time_of_first_write,
                    time_of_last_write, time_closing, writes >>

\* Chunk::set_written_to_object_store(chunk)
set_written_to_object_store ==
    \E chunk \in ParquetChunks :
        LET s == state IN
        /\ IF Variant(s) = "WritingToObjectStore"
             THEN /\ state' = WrittenToObjectStore(s[2], chunk)
                  /\ ret' = Ok("set_written_to_object_store", None)
             ELSE /\ state' = s
                  /\ ret' = Err("set_written_to_object_store",
                                unexpected_state("setting object store",
                                                 "MovingToObjectStore", s))
        /\ UNCHANGED << extVars, lockVars, wireVars, catalogVars, partition_key, id, time_of_first_write,
                        time_of_last_write, time_closing, writes >>

(***************************************************************************)
(* Chunk ids and orders: data_types/src/chunk_metadata.rs                  *)
(***************************************************************************)
\* A u32 is held as its two 16-bit halves << high, low >>, the value being
\* high * 2^16 + low.
Half == 65536
U32(n) == << n \div Half, n % Half >>
U32_MAX == << Half - 1, Half - 1 >>
U32_lt(a, b) == a[1] < b[1] \/ (a[1] = b[1] /\ a[2] < b[2])

\* u32::checked_add(1): None on overflow
U32_checked_add_1(x) ==
    IF x = U32_MAX THEN None
    ELSE IF x[2] = Half - 1 THEN Some(<< x[1] + 1, 0 >>)
    ELSE Some(<< x[1], x[2] + 1 >>)

\* the 128-bit ids followed in the model
IdSpace == 1 .. MaxCreated

\* ChunkId::new that can return an id already handed out
ChunkId_new_colliding(issued) == IdSpace

\* ChunkId::new: the ids a call can return.  The id is a random (version 4)
\* UUID; a draw that repeats one of the ids drawn before is not followed.
ChunkId_new(issued) == IdSpace \ issued

\* ChunkOrder::MIN
ChunkOrder_MIN == U32(1)
\* ChunkOrder::MAX
ChunkOrder_MAX == U32_MAX

\* ChunkOrder::next that returns the order it was called on
ChunkOrder_next_same(o) == Some(o)

\* ChunkOrder::next with wrapping_add(1) in place of checked_add(1)
ChunkOrder_next_wrapping(o) ==
    IF o = U32_MAX THEN Some(<< 0, 0 >>) ELSE U32_checked_add_1(o)

\* ChunkOrder::next: checked_add(1); None stands for the overflow panic
ChunkOrder_next(o) == U32_checked_add_1(o)

(***************************************************************************)
(* Catalog, table and partition: server/src/db/catalog.rs                  *)
(***************************************************************************)
TableNames == {"t1", "t2"}
Addrs == TableNames \X PartitionKeys

\* every id handed out so far by ChunkId::new
IssuedIds == UNION { { created[a][i].id : i \in 1 .. Len(created[a]) } : a \in Addrs }
TotalCreated == LET RECURSIVE Sum(_)
                    Sum(S) == IF S = {} THEN 0
                              ELSE LET a == CHOOSE x \in S : TRUE
                                   IN Len(created[a]) + Sum(S \ {a})
                IN Sum(Addrs)

\* Partition::new: no chunks, orders allocated from ChunkOrder::MIN
Partition_new == [ chunks |-> {}, next_chunk_order |-> ChunkOrder_MIN ]

\* Table::new: no partitions
Table_new == << >>

\* Table::get_or_create_partition
Table_get_or_create_partition(table, k) ==
    IF k \in DOMAIN table THEN table ELSE (k :> Partition_new) @@ table

\* or_insert_with that puts a new table in place of the entry it finds
tables_or_insert_replacing(t) ==
    [ u \in DOMAIN tables \cup {t} |-> IF u = t THEN Table_new ELSE tables[u] ]

\* the map after Catalog::get_or_create_table(t): an existing entry is kept
tables_or_insert(t) ==
    IF t \in DOMAIN tables THEN tables ELSE (t :> Table_new) @@ tables

HasPartition(t, k) == t \in DOMAIN tables /\ k \in DOMAIN tables[t]

\* the sequences that list every element of S once
Perms(S) ==
    { q \in [ 1 .. Cardinality(S) -> S ] :
          \A i, j \in 1 .. Cardinality(S) : q[i] = q[j] => i = j }

\* or_insert_with that moves the entries of the map even when the key exists
iteration_orders_rehashing(t) == Perms(DOMAIN tables \cup {t})

\* the iteration orders the hash map can have after or_insert_with(t): an
\* existing key leaves the map alone, an insertion puts the new key in any
\* bucket and may resize the map, which can move every other key
iteration_orders_after(t) ==
    IF t \in DOMAIN tables THEN { tables_order } ELSE Perms(DOMAIN tables \cup {t})

\* Catalog::get_or_create_table
get_or_create_table ==
    \E t \in TableNames :
        /\ tables' = tables_or_insert(t)
        /\ tables_order' \in iteration_orders_after(t)
        /\ ret' = Ok("get_or_create_table", Some(t))
        /\ UNCHANGED << extVars, lockVars, wireVars, chunkVars, created >>

\* Catalog::get_or_create_partition
get_or_create_partition ==
    \E t \in TableNames, k \in PartitionKeys :
        LET withTable == tables_or_insert(t) IN
        /\ tables' = [ withTable EXCEPT ![t] = Table_get_or_create_partition(@, k) ]
        /\ tables_order' \in iteration_orders_after(t)
        /\ ret' = Ok("get_or_create_partition", Some(<< t, k >>))
        /\ UNCHANGED << extVars, lockVars, wireVars, chunkVars, created >>

\* Table::partition(k) on the table t: the partition, if there is one
Table_partition(t, k) ==
    IF k \in DOMAIN tables[t] THEN Some(<< t, k >>) ELSE None

\* Partition::chunk(chunk_id) on the partition (t, k): the chunk and its order
Partition_chunk(t, k, chunk_id) ==
    LET found == { c \in tables[t][k].chunks : c.id = chunk_id } IN
    IF found = {} THEN None
    ELSE LET c == CHOOSE c \in found : TRUE
         IN Some([ table |-> t, partition |-> k, id |-> c.id, order |-> c.order ])

\* Catalog::table(table_name)
Catalog_table_result(op, t) ==
    IF t \in DOMAIN tables
      THEN Ok(op, Some(t))
      ELSE Err(op, [ error |-> "TableNotFound", table |-> t ])

\* Catalog::partition that reports a missing table as a missing partition
Catalog_partition_result_no_table_check(op, t, k) ==
    IF t \in DOMAIN tables /\ Table_partition(t, k) # None
      THEN Ok(op, Table_partition(t, k))
      ELSE Err(op, [ error |-> "PartitionNotFound", partition |-> k, table |-> t ])

\* Catalog::partition(table_name, partition_key)
Catalog_partition_result(op, t, k) ==
    LET table == Catalog_table_result(op, t) IN
    IF table.kind = "Err" THEN table
    ELSE IF Table_partition(t, k) = None
      THEN Err(op, [ error |-> "PartitionNotFound", partition |-> k, table |-> t ])
      ELSE Ok(op, Table_partition(t, k))

\* Catalog::chunk(table_name, partition_key, chunk_id)
Catalog_chunk_result(op, t, k, chunk_id) ==
    LET part == Catalog_partition_result(op, t, k) IN
    IF part.kind = "Err" THEN part
    ELSE IF Partition_chunk(t, k, chunk_id) = None
      THEN Err(op, [ error |-> "ChunkNotFound", chunk_id |-> chunk_id,
                     partition |-> k, table |-> t ])
      ELSE Ok(op, Partition_chunk(t, k, chunk_id))

\* Catalog::table
Catalog_table ==
    \E t \in TableNames :
        /\ ret' = Catalog_table_result("table", t)
        /\ UNCHANGED << extVars, lockVars, wireVars, chunkVars, catalogVars >>

\* Catalog::partition
Catalog_partition ==
    \E t \in TableNames, k \in PartitionKeys :
        /\ ret' = Catalog_partition_result("partition", t, k)
        /\ UNCHANGED << extVars, lockVars, wireVars, chunkVars, catalogVars >>

\* Catalog::chunk
Catalog_chunk ==
    \E t \in TableNames, k \in PartitionKeys, chunk_id \in IdSpace :
        /\ ret' = Catalog_chunk_result("chunk", t, k, chunk_id)
        /\ UNCHANGED << extVars, lockVars, wireVars, chunkVars, catalogVars >>

\* TableNameFilter
AllTables == [ kind |-> "AllTables" ]
NamedTables(names) == [ kind |-> "NamedTables", names |-> names ]

\* From<Option<&BTreeSet<String>>> for TableNameFilter
TableNameFilter_from(v) ==
    IF v = None THEN AllTables ELSE NamedTables(v[1])

\* the order of str on the table names and on the partition keys
TableNameOrder == << "t1", "t2" >>
PartitionKeyOrder == << "p1", "p2" >>

\* the elements of S in the order of the sequence order
InOrder(order, S) == SelectSeq(order, LAMBDA x : x \in S)

\* the concatenation of qs[1], qs[2], ...
RECURSIVE concat(_)
concat(qs) ==
    IF qs = << >> THEN << >> ELSE Head(qs) \o concat(Tail(qs))

\* collecting the items of the iterators qs: qs is evaluated once
flatten(qs) == CHOOSE r \in { concat(v) : v \in {qs} } : TRUE

\* HashMap::values / HashMap::keys on Catalog.tables
tables_values == tables_order

\* Table::partitions on the table t
Table_partitions(t) ==
    [ i \in 1 .. Len(InOrder(PartitionKeyOrder, DOMAIN tables[t])) |->
        << t, InOrder(PartitionKeyOrder, DOMAIN tables[t])[i] >> ]

\* Partition::chunks on the partition (t, k): its chunks by ChunkOrder
RECURSIVE by_order(_)
by_order(cs) ==
    IF cs = {} THEN << >>
    ELSE LET c == CHOOSE c \in cs : \A d \in cs \ {c} : U32_lt(c.order, d.order)
         IN << c >> \o by_order(cs \ {c})

Partition_chunks(a) ==
    CHOOSE r \in { [ i \in 1 .. Len(sorted) |->
                       [ table |-> a[1], partition |-> a[2],
                         id |-> sorted[i].id, order |-> sorted[i].order ] ] :
                   sorted \in { by_order(tables[a[1]][a[2]].chunks) } } : TRUE

\* CatalogChunk::summary, as far as the catalog decides it: where the chunk is
CatalogChunk_summary(chunk) == chunk

\* the tables filtered_chunks visits, an empty set of names taken as no filter
filtered_tables_empty_is_all(table_names) ==
    IF table_names.kind = "AllTables" \/ table_names.names = {}
      THEN tables_values
      ELSE InOrder(TableNameOrder, table_names.names \cap DOMAIN tables)

\* the tables filtered_chunks visits: every table, or the named ones that exist
filtered_tables(table_names) ==
    IF table_names.kind = "AllTables"
      THEN tables_values
      ELSE InOrder(TableNameOrder, table_names.names \cap DOMAIN tables)

\* the partitions filtered_chunks visits in the table t
filtered_partitions(t, key) ==
    IF key = None THEN Table_partitions(t)
    ELSE IF Table_partition(t, key[1]) = None THEN << >>
    ELSE << Table_partition(t, key[1])[1] >>

\* Catalog::filtered_chunks(table_names, partition_key, CatalogChunk::summary)
filtered_chunks_result(table_names, key) ==
    LET tabs == filtered_tables(table_names)
        partitions == flatten([ i \in 1 .. Len(tabs) |->
                                  filtered_partitions(tabs[i], key) ])
    IN flatten([ i \in 1 .. Len(partitions) |->
                   [ n \in 1 .. Len(Partition_chunks(partitions[i])) |->
                       CatalogChunk_summary(Partition_chunks(partitions[i])[n]) ] ])

\* Catalog::chunk_summaries
chunk_summaries_result == filtered_chunks_result(AllTables, None)

\* Catalog::table_names
table_names_result == tables_values

\* Catalog::partition_summaries: one entry per partition, table by table
partition_summaries_result ==
    flatten([ i \in 1 .. Len(tables_values) |-> Table_partitions(tables_values[i]) ])

\* the sets of names a caller passes as a filter
NameSets == SUBSET TableNames

\* Catalog::filtered_chunks with map = CatalogChunk::summary
filtered_chunks ==
    \E v \in {None} \cup { Some(S) : S \in NameSets },
       key \in {None} \cup { Some(k) : k \in PartitionKeys } :
        /\ ret' = Ok("filtered_chunks",
                     filtered_chunks_result(TableNameFilter_from(v), key))
        /\ UNCHANGED << extVars, lockVars, wireVars, chunkVars, catalogVars >>

\* Catalog::chunk_summaries
chunk_summaries ==
    /\ ret' = Ok("chunk_summaries", chunk_summaries_result)
    /\ UNCHANGED << extVars, lockVars, wireVars, chunkVars, catalogVars >>

\* Catalog::table_names
table_names ==
    /\ ret' = Ok("table_names", table_names_result)
    /\ UNCHANGED << extVars, lockVars, wireVars, chunkVars, catalogVars >>

\* Catalog::partition_summaries
partition_summaries ==
    /\ ret' = Ok("partition_summaries", partition_summaries_result)
    /\ UNCHANGED << extVars, lockVars, wireVars, chunkVars, catalogVars >>

\* drop_chunk that empties the partition
drop_chunk_all ==
    \E t \in TableNames, k \in PartitionKeys, chunk_id \in IdSpace :
        /\ HasPartition(t, k)
        /\ LET p == tables[t][k] IN
           IF \E c \in p.chunks : c.id = chunk_id
             THEN /\ tables' = [ tables EXCEPT ![t][k].chunks = {} ]
                  /\ ret' = Ok("drop_chunk", None)
             ELSE /\ tables' = tables
                  /\ ret' = Err("drop_chunk",
                                [ error |-> "ChunkNotFound", chunk_id |-> chunk_id,
                                  partition |-> k, table |-> t ])
        /\ UNCHANGED << extVars, lockVars, wireVars, chunkVars, tables_order, created >>

\* drop_chunk that reports success for an id the partition does not hold
drop_chunk_silent ==
    \E t \in TableNames, k \in PartitionKeys, chunk_id \in IdSpace :
        /\ HasPartition(t, k)
        /\ LET p == tables[t][k] IN
           /\ tables' = [ tables EXCEPT ![t][k].chunks =
                              { c \in p.chunks : c.id # chunk_id } ]
           /\ ret' = Ok("drop_chunk", None)
        /\ UNCHANGED << extVars, lockVars, wireVars, chunkVars, tables_order, created >>

\* Partition::drop_chunk(chunk_id) on the partition (t, k)
drop_chunk ==
    \E t \in TableNames, k \in PartitionKeys, chunk_id \in IdSpace :
        /\ HasPartition(t, k)
        /\ LET p == tables[t][k] IN
           IF \E c \in p.chunks : c.id = chunk_id
             THEN /\ tables' = [ tables EXCEPT ![t][k].chunks =
                                     { c \in p.chunks : c.id # chunk_id } ]
                  /\ ret' = Ok("drop_chunk", None)
             ELSE /\ tables' = tables
                  /\ ret' = Err("drop_chunk",
                                [ error |-> "ChunkNotFound", chunk_id |-> chunk_id,
                                  partition |-> k, table |-> t ])
        /\ UNCHANGED << extVars, lockVars, wireVars, chunkVars, tables_order, created >>

\* Partition::create_open_chunk on the partition (t, k): a new ChunkId and
\* the partition's next ChunkOrder
create_open_chunk ==
    \E t \in TableNames, k \in PartitionKeys :
        /\ HasPartition(t, k)
        /\ TotalCreated < MaxCreated
        /\ LET p == tables[t][k]
               chunk_order == p.next_chunk_order
               next == ChunkOrder_next(chunk_order)
           IN
           IF next = None
             THEN /\ ret' = Panic("create_open_chunk")
                  /\ UNCHANGED << tables, created >>
             ELSE \E chunk_id \in ChunkId_new(IssuedIds) :
                    LET c == [ id |-> chunk_id, order |-> chunk_order ] IN
                    /\ tables' = [ tables EXCEPT ![t][k] =
                                     [ chunks |-> p.chunks \cup {c},
                                       next_chunk_order |-> next[1] ] ]
                    /\ created' = [ created EXCEPT ![<< t, k >>] = Append(@, c) ]
                    /\ ret' = Ok("create_open_chunk", Some(c))
        /\ UNCHANGED << extVars, lockVars, wireVars, chunkVars, tables_order >>


(***************************************************************************)
(* Wire conversion of chunk summaries: generated_types/src/chunk.rs        *)
(***************************************************************************)
\* a Uuid is 16 bytes
UuidLen == 16
\* Uuid::from_u128(n).as_bytes() for n < 256: big-endian, n is the last byte
Uuid_from_u128(n) == [ i \in 1 .. UuidLen |-> IF i = UuidLen THEN n ELSE 0 ]

\* ChunkId(Uuid)
ChunkId(uuid) == [ uuid |-> uuid ]
\* ChunkId::new_test
ChunkId_new_test(n) == ChunkId(Uuid_from_u128(n))
\* From<ChunkId> for Bytes: id.get().as_bytes().to_vec()
Bytes_from_ChunkId(chunk_id) == chunk_id.uuid
\* TryFrom<Bytes> for ChunkId: Uuid::from_slice fails unless there are 16 bytes
ChunkId_try_from(bytes) ==
    IF Len(bytes) = UuidLen
      THEN Ok("ChunkId::try_from", ChunkId(bytes))
      ELSE Err("ChunkId::try_from", [ error |-> "CannotConvertBytes" ])

\* ChunkOrder::new(order): None for zero
ChunkOrder_new(order) == IF order = U32(0) THEN None ELSE Some(order)
\* ChunkOrder::get
ChunkOrder_get(order) == order

\* FieldViolation
FieldViolation(field, description) ==
    [ error |-> "FieldViolation", field |-> field, description |-> description ]
FieldViolation_required(field) == FieldViolation(field, "Field is required")
\* FieldViolation::scope: the field name is put in front of the path
FieldViolation_scope(v, field) ==
    [ v EXCEPT !.field = IF @ = "" THEN field ELSE field \o "." \o @ ]

\* the values of the fields of the summaries and messages followed
TestIds == {1, 42}
RandomUuids == { Uuid_from_u128(n) : n \in {7, 9} }
ChunkStorages == { "OpenMutableBuffer", "ClosedMutableBuffer", "ReadBuffer",
                   "ReadBufferAndObjectStore", "ObjectStoreOnly" }
SimpleActions == { "Persisting", "Compacting", "Dropping", "LoadingReadBuffer" }
\* enum ChunkLifecycleAction
LifecycleAction(name) == [ action |-> name ]
CompactingObjectStore(chunk_id) ==
    [ action |-> "CompactingObjectStore", chunk_id |-> chunk_id ]
LifecycleActions ==
    { LifecycleAction(a) : a \in SimpleActions }
        \cup { CompactingObjectStore(ChunkId_new_test(n)) : n \in TestIds }

\* From<ChunkStorage> for management::ChunkStorage, then into i32
management_ChunkStorage_from(storage) ==
    CASE storage = "OpenMutableBuffer" -> "CHUNK_STORAGE_OPEN_MUTABLE_BUFFER"
      [] storage = "ClosedMutableBuffer" -> "CHUNK_STORAGE_CLOSED_MUTABLE_BUFFER"
      [] storage = "ReadBuffer" -> "CHUNK_STORAGE_READ_BUFFER"
      [] storage = "ReadBufferAndObjectStore" ->
             "CHUNK_STORAGE_READ_BUFFER_AND_OBJECT_STORE"
      [] storage = "ObjectStoreOnly" -> "CHUNK_STORAGE_OBJECT_STORE_ONLY"

\* management::ChunkStorage::from_i32: None for a number that is no variant
management_ChunkStorage_from_i32(storage) ==
    IF storage = "CHUNK_STORAGE_UNKNOWN" THEN None ELSE Some(storage)

\* TryFrom<management::ChunkStorage> for ChunkStorage
ChunkStorage_try_from(proto) ==
    CASE proto = "CHUNK_STORAGE_OPEN_MUTABLE_BUFFER" ->
             Ok("ChunkStorage::try_from", "OpenMutableBuffer")
      [] proto = "CHUNK_STORAGE_CLOSED_MUTABLE_BUFFER" ->
             Ok("ChunkStorage::try_from", "ClosedMutableBuffer")
      [] proto = "CHUNK_STORAGE_READ_BUFFER" ->
             Ok("ChunkStorage::try_from", "ReadBuffer")
      [] proto = "CHUNK_STORAGE_READ_BUFFER_AND_OBJECT_STORE" ->
             Ok("ChunkStorage::try_from", "ReadBufferAndObjectStore")
      [] proto = "CHUNK_STORAGE_OBJECT_STORE_ONLY" ->
             Ok("ChunkStorage::try_from", "ObjectStoreOnly")
      [] proto = "CHUNK_STORAGE_UNSPECIFIED" ->
             Err("ChunkStorage::try_from", FieldViolation_required(""))

\* From<Option<ChunkLifecycleAction>> for management::ChunkLifecycleAction;
\* random_uuid is the ChunkId::new() the conversion draws
management_ChunkLifecycleAction_from(lifecycle_action, random_uuid) ==
    IF lifecycle_action = None
      THEN [ action |-> "ACTION_UNSPECIFIED", target_chunk_id |-> random_uuid ]
    ELSE IF lifecycle_action[1].action = "CompactingObjectStore"
      THEN [ action |-> "ACTION_COMPACTING_OBJECT_STORE",
             target_chunk_id |-> lifecycle_action[1].chunk_id.uuid ]
    ELSE [ action |-> CASE lifecycle_action[1].action = "Persisting" -> "ACTION_PERSISTING"
                        [] lifecycle_action[1].action = "Compacting" -> "ACTION_COMPACTING"
                        [] lifecycle_action[1].action = "Dropping" -> "ACTION_DROPPING"
                        [] lifecycle_action[1].action = "LoadingReadBuffer" ->
                               "ACTION_LOADING_READ_BUFFER",
           target_chunk_id |-> random_uuid ]

\* TryFrom<management::ChunkLifecycleAction> for Option<ChunkLifecycleAction>
\* that keeps the target of a Compacting action as well
Option_ChunkLifecycleAction_try_from_keeps_target(proto) ==
    IF Len(proto.target_chunk_id) # UuidLen
      THEN Panic("Option<ChunkLifecycleAction>::try_from")
    ELSE IF proto.action \in { "ACTION_COMPACTING_OBJECT_STORE", "ACTION_COMPACTING" }
      THEN Ok("Option<ChunkLifecycleAction>::try_from",
              Some(CompactingObjectStore(ChunkId(proto.target_chunk_id))))
    ELSE IF proto.action = "ACTION_PERSISTING"
      THEN Ok("Option<ChunkLifecycleAction>::try_from", Some(LifecycleAction("Persisting")))
    ELSE IF proto.action = "ACTION_LOADING_READ_BUFFER"
      THEN Ok("Option<ChunkLifecycleAction>::try_from",
              Some(LifecycleAction("LoadingReadBuffer")))
    ELSE IF proto.action = "ACTION_DROPPING"
      THEN Ok("Option<ChunkLifecycleAction>::try_from", Some(LifecycleAction("Dropping")))
    ELSE Ok("Option<ChunkLifecycleAction>::try_from", None)

\* TryFrom<management::ChunkLifecycleAction> for Option<ChunkLifecycleAction>:
\* the target must be 16 bytes whatever the action is
Option_ChunkLifecycleAction_try_from(proto) ==
    IF Len(proto.target_chunk_id) # UuidLen
      THEN Panic("Option<ChunkLifecycleAction>::try_from")
    ELSE IF proto.action = "ACTION_PERSISTING"
      THEN Ok("Option<ChunkLifecycleAction>::try_from", Some(LifecycleAction("Persisting")))
    ELSE IF proto.action = "ACTION_COMPACTING"
      THEN Ok("Option<ChunkLifecycleAction>::try_from", Some(LifecycleAction("Compacting")))
    ELSE IF proto.action = "ACTION_COMPACTING_OBJECT_STORE"
      THEN Ok("Option<ChunkLifecycleAction>::try_from",
              Some(CompactingObjectStore(ChunkId(proto.target_chunk_id))))
    ELSE IF proto.action = "ACTION_LOADING_READ_BUFFER"
      THEN Ok("Option<ChunkLifecycleAction>::try_from",
              Some(LifecycleAction("LoadingReadBuffer")))
    ELSE IF proto.action = "ACTION_DROPPING"
      THEN Ok("Option<ChunkLifecycleAction>::try_from", Some(LifecycleAction("Dropping")))
    ELSE Ok("Option<ChunkLifecycleAction>::try_from", None)

\* BytesToChunkIdError as a FieldViolation of the field it is scoped to
ChunkId_try_from_scoped(bytes, field) ==
    IF ChunkId_try_from(bytes).kind = "Ok"
      THEN ChunkId_try_from(bytes)
      ELSE Err("ChunkId::try_from",
               FieldViolation_scope(FieldViolation("", "Cannot convert bytes to chunk ID"),
                                    field))

\* FieldViolationExt::scope on a Result
Result_scope(r, field) ==
    IF r.kind = "Err"
      THEN [ r EXCEPT !.err = Some(FieldViolation_scope(r.err[1], field)) ]
      ELSE r

\* OptionalField::unwrap_field
unwrap_field(opt, field) ==
    IF opt = None
      THEN Err("unwrap_field", FieldViolation_required(field))
      ELSE Ok("unwrap_field", opt[1])

\* pbjson_types::Timestamp from a Time: t.date_time().into()
Timestamp_from(t) == [ seconds |-> t ]

\* DateTime<Utc> from a pbjson_types::Timestamp: fails for a negative one
DateTime_try_from(t) ==
    IF t.seconds < 0
      THEN Err("DateTime::try_from", [ error |-> "TryFromIntError" ])
      ELSE Ok("DateTime::try_from", t.seconds)

\* the closure convert_timestamp
convert_timestamp(t, field) ==
    IF DateTime_try_from(t).kind = "Err"
      THEN Err("convert_timestamp", FieldViolation(field, "Timestamp must be positive"))
      ELSE Ok("convert_timestamp", DateTime_try_from(t).val)

\* the closure timestamp: t.map(convert_timestamp).transpose()
timestamp(t, field) ==
    IF t = None THEN Ok("timestamp", None)
    ELSE IF convert_timestamp(t[1], field).kind = "Err" THEN convert_timestamp(t[1], field)
    ELSE Ok("timestamp", Some(convert_timestamp(t[1], field).val))

\* the closure required_timestamp: unwrap_field, and then convert_timestamp
required_timestamp(t, field) ==
    IF unwrap_field(t, field).kind = "Err"
      THEN unwrap_field(t, field)
      ELSE convert_timestamp(unwrap_field(t, field).val, field)

\* From<ChunkSummary> for management::Chunk that sends the first write time twice
management_Chunk_from_first_write_twice(summary, random_uuid) ==
    [ partition_key |-> summary.partition_key,
      table_name |-> summary.table_name,
      id |-> Bytes_from_ChunkId(summary.id),
      storage |-> management_ChunkStorage_from(summary.storage),
      lifecycle_action |->
          Some(management_ChunkLifecycleAction_from(summary.lifecycle_action, random_uuid)),
      memory_bytes |-> summary.memory_bytes,
      object_store_bytes |-> summary.object_store_bytes,
      row_count |-> summary.row_count,
      time_of_last_access |->
          IF summary.time_of_last_access = None THEN None
          ELSE Some(Timestamp_from(summary.time_of_last_access[1])),
      time_of_first_write |-> Some(Timestamp_from(summary.time_of_first_write)),
      time_of_last_write |-> Some(Timestamp_from(summary.time_of_first_write)),
      order |-> ChunkOrder_get(summary.order) ]

\* From<ChunkSummary> for management::Chunk
management_Chunk_from(summary, random_uuid) ==
    [ partition_key |-> summary.partition_key,
      table_name |-> summary.table_name,
      id |-> Bytes_from_ChunkId(summary.id),
      storage |-> management_ChunkStorage_from(summary.storage),
      lifecycle_action |->
          Some(management_ChunkLifecycleAction_from(summary.lifecycle_action, random_uuid)),
      memory_bytes |-> summary.memory_bytes,
      object_store_bytes |-> summary.object_store_bytes,
      row_count |-> summary.row_count,
      time_of_last_access |->
          IF summary.time_of_last_access = None THEN None
          ELSE Some(Timestamp_from(summary.time_of_last_access[1])),
      time_of_first_write |-> Some(Timestamp_from(summary.time_of_first_write)),
      time_of_last_write |-> Some(Timestamp_from(summary.time_of_last_write)),
      order |-> ChunkOrder_get(summary.order) ]

\* TryFrom<management::Chunk> for ChunkSummary: the fields are converted in
\* the order of the struct literal and the first failure is returned
ChunkSummary_try_from(proto) ==
    LET f_id == ChunkId_try_from_scoped(proto.id, "id")
        f_storage ==
            IF management_ChunkStorage_from_i32(proto.storage) = None
              THEN Err("required", FieldViolation_required("storage"))
              ELSE Result_scope(
                       ChunkStorage_try_from(
                           management_ChunkStorage_from_i32(proto.storage)[1]),
                       "storage")
        f_lifecycle_action ==
            IF proto.lifecycle_action = None
              THEN Err("required", FieldViolation_required("lifecycle_action"))
              ELSE Result_scope(
                       Option_ChunkLifecycleAction_try_from(proto.lifecycle_action[1]),
                       "lifecycle_action")
        f_last_access == timestamp(proto.time_of_last_access, "time_of_last_access")
        f_first_write ==
            required_timestamp(proto.time_of_first_write, "time_of_first_write")
        f_last_write ==
            required_timestamp(proto.time_of_last_write, "time_of_last_write")
        f_order == unwrap_field(ChunkOrder_new(proto.order), "order")
        fields == << f_id, f_storage, f_lifecycle_action, f_last_access,
                     f_first_write, f_last_write, f_order >>
        failed == { i \in 1 .. Len(fields) : fields[i].kind # "Ok" }
    IN
    IF failed # {}
      THEN [ fields[CHOOSE i \in failed : \A j \in failed : i <= j]
               EXCEPT !.op = "ChunkSummary::try_from" ]
      ELSE Ok("ChunkSummary::try_from",
              [ partition_key |-> proto.partition_key,
                table_name |-> proto.table_name,
                id |-> f_id.val,
                storage |-> f_storage.val,
                lifecycle_action |-> f_lifecycle_action.val,
                memory_bytes |-> proto.memory_bytes,
                object_store_bytes |-> proto.object_store_bytes,
                row_count |-> proto.row_count,
                time_of_last_access |-> f_last_access.val,
                time_of_first_write |-> f_first_write.val,
                time_of_last_write |-> f_last_write.val,
                order |-> f_order.val ])

\* the summaries that are encoded; the times are readings of the clock
Summaries ==
    [ partition_key : {"p1"},
      table_name : {"t1"},
      order : { U32(1), U32(5) },
      id : { ChunkId_new_test(n) : n \in TestIds },
      storage : ChunkStorages,
      lifecycle_action : {None} \cup { Some(a) : a \in LifecycleActions },
      memory_bytes : {0, 1234},
      object_store_bytes : {567},
      row_count : {321},
      time_of_last_access : {None} \cup { Some(t) : t \in Times },
      time_of_first_write : Times,
      time_of_last_write : Times ]

\* the messages that arrive: ids and targets of 16 and of 15 bytes, every
\* action and storage tag, timestamps before the epoch, missing fields
ShortBytes == [ i \in 1 .. UuidLen - 1 |-> 0 ]
WireActions == { "ACTION_UNSPECIFIED", "ACTION_PERSISTING", "ACTION_COMPACTING",
                 "ACTION_COMPACTING_OBJECT_STORE", "ACTION_DROPPING",
                 "ACTION_LOADING_READ_BUFFER", "ACTION_UNKNOWN" }
WireTargets16 == { Uuid_from_u128(1), Uuid_from_u128(7) }
WireTimestamps == {None} \cup { Some([ seconds |-> t ]) : t \in -1 .. MaxTime }
WireChunks ==
    [ partition_key : {"p1"},
      table_name : {"t1"},
      id : { Uuid_from_u128(1), Uuid_from_u128(42), ShortBytes },
      storage : { "CHUNK_STORAGE_UNSPECIFIED", "CHUNK_STORAGE_UNKNOWN",
                  "CHUNK_STORAGE_READ_BUFFER", "CHUNK_STORAGE_OBJECT_STORE_ONLY" },
      lifecycle_action :
          {None} \cup { Some(m) : m \in [ action : WireActions,
                                          target_chunk_id : WireTargets16 \cup {ShortBytes} ] },
      memory_bytes : {1234},
      object_store_bytes : {567},
      row_count : {321},
      time_of_last_access : { None, Some([ seconds |-> -1 ]), Some([ seconds |-> 0 ]) },
      time_of_first_write : WireTimestamps,
      time_of_last_write : WireTimestamps,
      order : { U32(0), U32(5) } ]

\* the summary at hand is converted to its message
Wire_encode ==
    /\ wire_summary # None
    /\ wire_proto = None
    /\ \E random_uuid \in RandomUuids :
           wire_proto' = Some(management_Chunk_from(wire_summary[1], random_uuid))
    /\ ret' = Ok("encode", None)
    /\ UNCHANGED << extVars, lockVars, chunkVars, catalogVars, wire_summary >>

\* the message at hand is converted to a summary
Wire_decode ==
    /\ wire_proto # None
    /\ ret' = [ ChunkSummary_try_from(wire_proto[1]) EXCEPT !.op = "decode" ]
    /\ UNCHANGED << extVars, lockVars, wireVars, chunkVars, catalogVars >>

(***************************************************************************)
(* The locks of the catalog: server/src/db/catalog.rs                      *)
(***************************************************************************)
\* the threads that call into the catalog
Procs == {"a", "b"}

\* the RwLock of Catalog.tables, of a partition and of a chunk
LockRoot == << "root" >>
LockPartition(a) == << "partition", a[1], a[2] >>
LockChunk(chunk_id) == << "chunk", chunk_id >>
LockIds ==
    {LockRoot} \cup { LockPartition(a) : a \in Addrs }
               \cup { LockChunk(i) : i \in IdSpace }

\* the depth of a lock in the tree: root, partition, chunk
Level(l) ==
    CASE l[1] = "root" -> 1
      [] l[1] = "partition" -> 2
      [] l[1] = "chunk" -> 3

\* RwLock::new
Unlocked == [ readers |-> {}, writer |-> None ]
\* a call of RwLock::read or RwLock::write
Request(l, mode) == [ lock |-> l, mode |-> mode ]

\* a thread outside the catalog; op and acc are its last call and what it returned
Idle(op, result) ==
    [ op |-> op, at |-> "idle", want |-> None, held |-> << >>,
      todo |-> << >>, chunks |-> << >>, acc |-> result, arg |-> << >> ]

\* whether RwLock::read / RwLock::write returns now
RwLock_can(l, mode) ==
    IF mode = "read"
      THEN locks[l].writer = None
      ELSE locks[l].writer = None /\ locks[l].readers = {}

\* the lock after the guard of req is handed to p / dropped by p
RwLock_acquire(lk, req, p) ==
    IF req.mode = "read"
      THEN [ lk EXCEPT ![req.lock].readers = @ \cup {p} ]
      ELSE [ lk EXCEPT ![req.lock].writer = Some(p) ]
RwLock_release(lk, req, p) ==
    IF req.mode = "read"
      THEN [ lk EXCEPT ![req.lock].readers = @ \ {p} ]
      ELSE [ lk EXCEPT ![req.lock].writer = None ]

\* the locks after p dropped the guards it held in old and does not hold in new
RECURSIVE unlock_to(_, _, _, _)
unlock_to(lk, old, new, p) ==
    IF Len(old) <= Len(new) THEN lk
    ELSE unlock_to(RwLock_release(lk, old[Len(old)], p),
                   SubSeq(old, 1, Len(old) - 1), new, p)

\* a traversal that holds the root lock
Traversing(q) == pc[q].op = "filtered_chunks" /\ pc[q].held # << >>

\* history: every running traversal has seen the catalog become tbls
snaps_after(tbls) ==
    [ q \in Procs |-> IF Traversing(q) THEN snaps[q] \cup {tbls} ELSE snaps[q] ]

\* p enters the operation op and reaches its first lock
call(p, op, arg, first) ==
    /\ pc[p].at = "idle"
    /\ budget > 0
    /\ budget' = budget - 1
    /\ pc' = [ pc EXCEPT ![p] =
                 [ op |-> op, at |-> "tables", want |-> Some(first), held |-> << >>,
                   todo |-> << >>, chunks |-> << >>, acc |-> {}, arg |-> arg ] ]
    /\ UNCHANGED << extVars, wireVars, chunkVars, catalogVars, locks, snaps, ret >>

\* RwLock::read / RwLock::write returns to p, which waited for it
RwLock_lock(p) ==
    /\ pc[p].want # None
    /\ RwLock_can(pc[p].want[1].lock, pc[p].want[1].mode)
    /\ locks' = RwLock_acquire(locks, pc[p].want[1], p)
    /\ pc' = [ pc EXCEPT ![p].want = None, ![p].held = Append(@, pc[p].want[1]) ]
    /\ snaps' = IF pc[p].op = "filtered_chunks" /\ pc[p].want[1].lock = LockRoot
                  THEN [ snaps EXCEPT ![p] = {tables} ]
                  ELSE snaps
    /\ UNCHANGED << extVars, wireVars, chunkVars, catalogVars, budget, ret >>

\* Catalog::filtered_chunks: let tables = self.tables.read()
filtered_chunks_call(p) ==
    call(p, "filtered_chunks", << >>, Request(LockRoot, "read"))

\* the for loop of filtered_chunks: the next partition.read(), or the return
next_partition(s) ==
    IF s.todo = << >>
      THEN Idle(s.op, s.acc)
      ELSE [ s EXCEPT !.want = Some(Request(LockPartition(Head(s.todo)), "read")),
                      !.at = "partition" ]

\* the closure of filtered_chunks with a partition guard that outlives the
\* loop body
next_chunk_keeps_partition(s) ==
    IF s.chunks = << >>
      THEN next_partition([ s EXCEPT !.todo = Tail(@) ])
      ELSE [ s EXCEPT !.want = Some(Request(LockChunk(Head(s.chunks).id), "read")),
                      !.at = "chunk" ]

\* the closure of filtered_chunks: the next chunk.read(); after the last
\* chunk the partition guard is dropped and the loop goes on
next_chunk(s) ==
    IF s.chunks = << >>
      THEN next_partition([ s EXCEPT !.todo = Tail(@),
                                     !.held = SubSeq(@, 1, Len(@) - 1) ])
      ELSE [ s EXCEPT !.want = Some(Request(LockChunk(Head(s.chunks).id), "read")),
                      !.at = "chunk" ]

\* Catalog::filtered_chunks that keeps the guard of a chunk when it goes on
\* to the next
filtered_chunks_step_keeps_chunk(p) ==
    LET s == pc[p]
        new == CASE s.at = "tables" ->
                      next_partition([ s EXCEPT !.todo = partition_summaries_result ])
                 [] s.at = "partition" ->
                      next_chunk([ s EXCEPT !.chunks = Partition_chunks(Head(s.todo)) ])
                 [] s.at = "chunk" ->
                      IF Len(s.chunks) > 1
                        THEN [ s EXCEPT
                                 !.acc = @ \cup { CatalogChunk_summary(Head(s.chunks)) },
                                 !.chunks = Tail(@),
                                 !.want = Some(Request(LockChunk(s.chunks[2].id), "read")) ]
                        ELSE next_partition([ s EXCEPT
                                 !.acc = @ \cup { CatalogChunk_summary(Head(s.chunks)) },
                                 !.chunks = << >>,
                                 !.todo = Tail(@),
                                 !.held = SubSeq(@, 1, 1) ])
    IN
    /\ s.op = "filtered_chunks"
    /\ s.at # "idle"
    /\ s.want = None
    /\ pc' = [ pc EXCEPT ![p] = new ]
    /\ locks' = unlock_to(locks, s.held, new.held, p)
    /\ UNCHANGED << extVars, wireVars, chunkVars, catalogVars, snaps, budget, ret >>

\* Catalog::filtered_chunks between two lock calls
filtered_chunks_step(p) ==
    LET s == pc[p]
        new == CASE s.at = "tables" ->
                      next_partition([ s EXCEPT !.todo = partition_summaries_result ])
                 [] s.at = "partition" ->
                      next_chunk([ s EXCEPT !.chunks = Partition_chunks(Head(s.todo)) ])
                 [] s.at = "chunk" ->
                      next_chunk([ s EXCEPT
                                     !.acc = @ \cup { CatalogChunk_summary(Head(s.chunks)) },
                                     !.chunks = Tail(@),
                                     !.held = SubSeq(@, 1, Len(@) - 1) ])
    IN
    /\ s.op = "filtered_chunks"
    /\ s.at # "idle"
    /\ s.want = None
    /\ pc' = [ pc EXCEPT ![p] = new ]
    /\ locks' = unlock_to(locks, s.held, new.held, p)
    /\ UNCHANGED << extVars, wireVars, chunkVars, catalogVars, snaps, budget, ret >>

\* Catalog::chunks and Catalog::persistence_summaries: let tables =
\* self.tables.read()
chunks_call(p) ==
    \E op \in { "chunks", "persistence_summaries" } :
        call(p, op, << >>, Request(LockRoot, "read"))

\* Catalog::chunks and Catalog::persistence_summaries between two lock
\* calls: under partition.read() the chunks are cloned, or the persistence
\* windows read, without a lock of a chunk
chunks_step(p) ==
    LET s == pc[p]
        new == CASE s.at = "tables" ->
                      next_partition([ s EXCEPT !.todo = partition_summaries_result ])
                 [] s.at = "partition" ->
                      next_chunk([ s EXCEPT
                                     !.acc = IF s.op = "chunks"
                                               THEN @ \cup Range(Partition_chunks(Head(s.todo)))
                                               ELSE @,
                                     !.chunks = << >> ])
    IN
    /\ s.op \in { "chunks", "persistence_summaries" }
    /\ s.at # "idle"
    /\ s.want = None
    /\ pc' = [ pc EXCEPT ![p] = new ]
    /\ locks' = unlock_to(locks, s.held, new.held, p)
    /\ UNCHANGED << extVars, wireVars, chunkVars, catalogVars, snaps, budget, ret >>

\* the chunks that threads are about to create
PendingCreates ==
    Cardinality({ q \in Procs : pc[q].op = "create_open_chunk" /\ pc[q].at = "tables" })

\* tests::create_open_chunk: let mut partition = partition.write()
create_open_chunk_call(p) ==
    \E t \in TableNames, k \in PartitionKeys :
        /\ HasPartition(t, k)
        /\ TotalCreated + PendingCreates < MaxCreated
        /\ call(p, "create_open_chunk", << t, k >>, Request(LockPartition(<< t, k >>), "write"))

\* the lock create_open_chunk takes after the insertion, taken on the root
create_open_chunk_lock_root(chunk_id) == Request(LockRoot, "read")

\* the lock create_open_chunk takes after the insertion: chunk.read()
create_open_chunk_lock(chunk_id) == Request(LockChunk(chunk_id), "read")

\* tests::create_open_chunk under the partition lock, then under the chunk lock
create_open_chunk_step(p) ==
    LET s == pc[p]
        t == s.arg[1]
        k == s.arg[2]
    IN
    /\ s.op = "create_open_chunk"
    /\ s.at # "idle"
    /\ s.want = None
    /\ IF s.at = "tables"
         THEN \E chunk_id \in ChunkId_new(IssuedIds) :
                LET part == tables[t][k]
                    c == [ id |-> chunk_id, order |-> part.next_chunk_order ]
                IN
                /\ ChunkOrder_next(part.next_chunk_order) # None
                /\ tables' = [ tables EXCEPT ![t][k] =
                                 [ chunks |-> part.chunks \cup {c},
                                   next_chunk_order |->
                                       ChunkOrder_next(part.next_chunk_order)[1] ] ]
                /\ created' = [ created EXCEPT ![<< t, k >>] = Append(@, c) ]
                /\ pc' = [ pc EXCEPT ![p].want = Some(create_open_chunk_lock(chunk_id)),
                                     ![p].at = "chunk" ]
                /\ snaps' = snaps_after(tables')
                /\ UNCHANGED locks
         ELSE /\ pc' = [ pc EXCEPT ![p] = Idle(s.op, {}) ]
              /\ locks' = unlock_to(locks, s.held, << >>, p)
              /\ UNCHANGED << tables, created, snaps >>
    /\ UNCHANGED << extVars, wireVars, chunkVars, tables_order, budget, ret >>

\* partition.write().drop_chunk(chunk_id): the call reaches partition.write()
drop_chunk_call(p) ==
    \E t \in TableNames, k \in PartitionKeys, chunk_id \in IssuedIds :
        /\ HasPartition(t, k)
        /\ call(p, "drop_chunk", << t, k, chunk_id >>,
                Request(LockPartition(<< t, k >>), "write"))

\* Partition::drop_chunk under the partition lock
drop_chunk_step(p) ==
    LET s == pc[p]
        t == s.arg[1]
        k == s.arg[2]
        found == { c \in tables[t][k].chunks : c.id = s.arg[3] }
    IN
    /\ s.op = "drop_chunk"
    /\ s.at # "idle"
    /\ s.want = None
    /\ tables' = [ tables EXCEPT ![t][k].chunks = @ \ found ]
    /\ snaps' = snaps_after(tables')
    /\ pc' = [ pc EXCEPT ![p] = Idle(s.op, found) ]
    /\ locks' = unlock_to(locks, s.held, << >>, p)
    /\ UNCHANGED << extVars, wireVars, chunkVars, tables_order, created, budget, ret >>

\* get_or_create_table with a shared lock on the tables
get_or_create_table_lock_shared == Request(LockRoot, "read")

\* Catalog::get_or_create_table: self.tables.write()
get_or_create_table_lock == Request(LockRoot, "write")

\* Catalog::get_or_create_partition: the call reaches self.tables.write()
get_or_create_partition_call(p) ==
    \E t \in TableNames, k \in PartitionKeys :
        call(p, "get_or_create_partition", << t, k >>, get_or_create_table_lock)

\* Catalog::get_or_create_partition under the lock of the tables
get_or_create_partition_step(p) ==
    LET s == pc[p]
        t == s.arg[1]
        k == s.arg[2]
    IN
    /\ s.op = "get_or_create_partition"
    /\ s.at # "idle"
    /\ s.want = None
    /\ tables' = [ tables_or_insert(t) EXCEPT ![t] = Table_get_or_create_partition(@, k) ]
    /\ tables_order' \in iteration_orders_after(t)
    /\ snaps' = snaps_after(tables')
    /\ pc' = [ pc EXCEPT ![p] = Idle(s.op, {}) ]
    /\ locks' = unlock_to(locks, s.held, << >>, p)
    /\ UNCHANGED << extVars, wireVars, chunkVars, created, budget, ret >>

\* Catalog::chunk: the call reaches self.tables.read() in Catalog::table
chunk_call(p) ==
    \E t \in TableNames, k \in PartitionKeys, chunk_id \in IssuedIds :
        call(p, "chunk", << t, k, chunk_id >>, Request(LockRoot, "read"))

\* Catalog::chunk: the partition is looked up under the lock of the tables,
\* that guard is dropped, and the chunk is looked up under partition.read()
chunk_step(p) ==
    LET s == pc[p]
        t == s.arg[1]
        k == s.arg[2]
        new == IF s.at = "tables"
                 THEN IF Catalog_partition_result("partition", t, k).kind = "Err"
                        THEN Idle(s.op, {})
                        ELSE [ s EXCEPT
                                 !.held = << >>,
                                 !.want = Some(Request(LockPartition(<< t, k >>), "read")),
                                 !.at = "partition" ]
                 ELSE Idle(s.op, { c \in Range(Partition_chunks(<< t, k >>)) :
                                      c.id = s.arg[3] })
    IN
    /\ s.op = "chunk"
    /\ s.at # "idle"
    /\ s.want = None
    /\ pc' = [ pc EXCEPT ![p] = new ]
    /\ locks' = unlock_to(locks, s.held, new.held, p)
    /\ UNCHANGED << extVars, wireVars, chunkVars, catalogVars, snaps, budget, ret >>

(***************************************************************************)
(* ChunkOrder on its own: data_types/src/chunk_metadata.rs                 *)
(***************************************************************************)
\* the u32 values ChunkOrder::new is called with: the values around zero,
\* around the carry between the two halves and around u32::MAX
OrderHighs == { 0, 1, Half - 2, Half - 1 }
OrderLows == (0 .. 5) \cup ((Half - 6) .. (Half - 1))
OrderArgs == OrderHighs \X OrderLows

\* no ChunkOrder is followed on its own
NoOrder ==
    /\ order_arg = U32(0)
    /\ order_obj = None
    /\ order_nexts = 0

\* ChunkOrder::new(order_arg)
Order_new ==
    /\ order_nexts = 0
    /\ order_obj' = ChunkOrder_new(order_arg)
    /\ ret' = [ op |-> "ChunkOrder::new", kind |-> "Ok",
                val |-> ChunkOrder_new(order_arg), err |-> None ]
    /\ UNCHANGED << guardVars, httpVars, readVars, metricVars, order_arg, order_nexts, sysVars, idVars, lockVars, wireVars, chunkVars, catalogVars >>

\* ChunkOrder::get on the order at hand
Order_get ==
    /\ order_obj # None
    /\ ret' = [ op |-> "ChunkOrder::get", kind |-> "Ok",
                val |-> ChunkOrder_get(order_obj[1]), err |-> None ]
    /\ UNCHANGED << guardVars, httpVars, readVars, metricVars, orderVars, sysVars, idVars, lockVars, wireVars, chunkVars, catalogVars >>

\* ChunkOrder::next on the order at hand; the result replaces it
Order_next ==
    /\ order_obj # None
    /\ order_nexts < MaxNexts
    /\ order_nexts' = order_nexts + 1
    /\ IF ChunkOrder_next(order_obj[1]) = None
         THEN /\ ret' = [ op |-> "ChunkOrder::next", kind |-> "Panic",
                          val |-> None, err |-> Some("chunk order overflow") ]
              /\ UNCHANGED order_obj
         ELSE /\ ret' = [ op |-> "ChunkOrder::next", kind |-> "Ok",
                          val |-> ChunkOrder_next(order_obj[1]), err |-> None ]
              /\ order_obj' = ChunkOrder_next(order_obj[1])
    /\ UNCHANGED << guardVars, httpVars, readVars, metricVars, order_arg, sysVars, idVars, lockVars, wireVars, chunkVars, catalogVars >>

(***************************************************************************)
(* Read buffer chunk and its metrics: read_buffer/src/chunk.rs             *)
(***************************************************************************)
\* the columns of the table of test::read_filter_setup that are followed,
\* in schema order, each with its encoding and logical type
Columns == << "env", "region", "sketchy_sensor", "time" >>
ColumnEncoding(c) ==
    CASE c \in { "env", "region" } -> << "RLE", "string" >>
      [] c = "sketchy_sensor" -> << "FIXEDN", "i64" >>
      [] c = "time" -> << "BT_U32-FIXED", "i64" >>

\* the record batch read_filter_setup builds for i: three rows with times
\* i, 2i and 3i; every value is an Option and the sensor of the first row
\* is NULL
gen_recordbatch(i) ==
    << [ env |-> Some("us-west"), region |-> Some("west"),
         sketchy_sensor |-> None, time |-> Some(i) ],
       [ env |-> Some("us-east"), region |-> Some("west"),
         sketchy_sensor |-> Some(33), time |-> Some(2 * i) ],
       [ env |-> Some("us-west"), region |-> Some("east"),
         sketchy_sensor |-> Some(44), time |-> Some(3 * i) ] >>

\* RowGroup::from(record batch): the rows, column by column
RowGroup_from(rb) == rb
\* the row groups written to a chunk
RowGroups == { RowGroup_from(gen_recordbatch(i)) : i \in { 100, 200, 300 } }

\* the number of NULL values of column c in the row group rg
Nulls(rg, c) == Cardinality({ i \in 1 .. Len(rg) : rg[i][c] = None })

\* RowGroup::column_storage_statistics: one Statistics per column
column_storage_statistics(rg) ==
    [ n \in 1 .. Len(Columns) |->
        LET c == Columns[n] IN
        [ enc_type |-> ColumnEncoding(c)[1],
          log_data_type |-> ColumnEncoding(c)[2],
          allocated_bytes |-> 16 * Len(rg),
          required_bytes |-> 8 * Len(rg),
          raw_bytes |-> 8 * Len(rg),
          raw_bytes_no_null |-> 8 * (Len(rg) - Nulls(rg, c)),
          values |-> Len(rg),
          nulls |-> Nulls(rg, c) ] ]

\* the instruments of ChunkMetrics::new: metric name and attributes
Encodings == { ColumnEncoding(Columns[n]) : n \in 1 .. Len(Columns) }
Gauges ==
    { << "read_buffer_row_group_total" >> }
      \cup { << m, e[1], e[2] >> :
               m \in { "read_buffer_column_total", "read_buffer_column_allocated_bytes",
                       "read_buffer_column_required_bytes" },
               e \in Encodings }
      \cup { << m, e[1], e[2], null >> :
               m \in { "read_buffer_column_raw_bytes", "read_buffer_column_values" },
               e \in Encodings, null \in { "true", "false" } }

\* no observation made yet
ZeroGauges == [ g \in Gauges |-> 0 ]

\* CumulativeRecorder::inc(n) on the instrument g
inc(recorded, g, n) == [ recorded EXCEPT ![g] = @ + n ]

\* the body of the for loop of update_column_storage_statistics
update_one_column(recorded, stat) ==
    LET e == stat.enc_type
        t == stat.log_data_type
        r1 == inc(recorded, << "read_buffer_column_total", e, t >>, 1)
        r2 == inc(r1, << "read_buffer_column_allocated_bytes", e, t >>, stat.allocated_bytes)
        r3 == inc(r2, << "read_buffer_column_required_bytes", e, t >>, stat.required_bytes)
        r4 == inc(r3, << "read_buffer_column_raw_bytes", e, t, "true" >>,
                  stat.raw_bytes - stat.raw_bytes_no_null)
        r5 == inc(r4, << "read_buffer_column_values", e, t, "true" >>, stat.nulls)
        r6 == inc(r5, << "read_buffer_column_raw_bytes", e, t, "false" >>,
                  stat.raw_bytes_no_null)
    IN inc(r6, << "read_buffer_column_values", e, t, "false" >>, stat.values - stat.nulls)

RECURSIVE update_columns(_, _)
update_columns(recorded, statistics) ==
    IF statistics = << >> THEN recorded
    ELSE update_columns(update_one_column(recorded, Head(statistics)), Tail(statistics))

\* ChunkMetrics::update_column_storage_statistics: what the recorders of one
\* ChunkMetrics have recorded after the call
update_column_storage_statistics(recorded, statistics) ==
    update_columns(inc(recorded, << "read_buffer_row_group_total" >>, 1), statistics)

\* ChunkMetrics::new(registry, db_name) / ChunkMetrics::new_unregistered()
ChunkMetrics_new == [ registered |-> TRUE, recorded |-> ZeroGauges ]
ChunkMetrics_new_unregistered == [ registered |-> FALSE, recorded |-> ZeroGauges ]
MetricsArgs == { ChunkMetrics_new, ChunkMetrics_new_unregistered }

\* the registry after the recorders of metrics went from recorded to now:
\* a registered recorder adds what it records to the gauge it shares
Registry_observe(registry, metrics, now) ==
    IF metrics.registered
      THEN [ g \in Gauges |-> registry[g] + now[g] - metrics.recorded[g] ]
      ELSE registry

\* the slots for the chunks alive at one time
Slots == { 1, 2 }

\* no read buffer chunk exists
NoReadBuffer ==
    /\ rb_registry = ZeroGauges
    /\ rb_chunks = [ c \in Slots |-> None ]

\* Chunk::new(table_name, table_data, metrics)
Chunk_new ==
    \E c \in Slots, row_group \in RowGroups, metrics \in MetricsArgs :
        LET now == update_column_storage_statistics(
                       metrics.recorded, column_storage_statistics(row_group))
        IN
        /\ rb_chunks[c] = None
        /\ rb_chunks' = [ rb_chunks EXCEPT ![c] =
                            Some([ metrics |-> [ metrics EXCEPT !.recorded = now ],
                                   table |-> << row_group >> ]) ]
        /\ rb_registry' = Registry_observe(rb_registry, metrics, now)
        /\ ret' = [ op |-> "Chunk::new", kind |-> "Ok", val |-> c, err |-> None ]
        /\ UNCHANGED << guardVars, httpVars, readVars, orderVars, sysVars, idVars, lockVars, wireVars, chunkVars, catalogVars >>

\* Chunk::new_from_row_group(table_name, row_group, metrics)
Chunk_new_from_row_group ==
    \E c \in Slots, row_group \in RowGroups, metrics \in MetricsArgs :
        /\ rb_chunks[c] = None
        /\ rb_chunks' = [ rb_chunks EXCEPT ![c] =
                            Some([ metrics |-> metrics, table |-> << row_group >> ]) ]
        /\ ret' = [ op |-> "Chunk::new_from_row_group", kind |-> "Ok",
                    val |-> c, err |-> None ]
        /\ UNCHANGED << guardVars, httpVars, readVars, rb_registry, orderVars, sysVars, idVars, lockVars, wireVars, chunkVars, catalogVars >>

\* Chunk::row_groups: the number of row groups of the table
Chunk_row_groups(chunk) == Len(chunk.table)

\* Chunk::rows: the number of rows in all row groups of the table
RECURSIVE Table_rows(_)
Table_rows(table) ==
    IF table = << >> THEN 0 ELSE Len(Head(table)) + Table_rows(Tail(table))
Chunk_rows(chunk) == Table_rows(chunk.table)

\* an upsert that keeps the new row group only
upsert_replacing(op, c, row_group) ==
    LET chunk == rb_chunks[c][1]
        now == update_column_storage_statistics(
                   chunk.metrics.recorded, column_storage_statistics(row_group))
    IN
    /\ Len(chunk.table) < MaxRowGroups
    /\ rb_chunks' = [ rb_chunks EXCEPT ![c] =
                        Some([ metrics |-> [ chunk.metrics EXCEPT !.recorded = now ],
                               table |-> << row_group >> ]) ]
    /\ rb_registry' = Registry_observe(rb_registry, chunk.metrics, now)
    /\ ret' = [ op |-> op, kind |-> "Ok", val |-> c, err |-> None ]
    /\ UNCHANGED << guardVars, httpVars, readVars, orderVars, sysVars, idVars, lockVars, wireVars, chunkVars, catalogVars >>

\* Chunk::upsert_table_with_row_group called as op
upsert(op, c, row_group) ==
    LET chunk == rb_chunks[c][1]
        now == update_column_storage_statistics(
                   chunk.metrics.recorded, column_storage_statistics(row_group))
    IN
    /\ Len(chunk.table) < MaxRowGroups
    /\ rb_chunks' = [ rb_chunks EXCEPT ![c] =
                        Some([ metrics |-> [ chunk.metrics EXCEPT !.recorded = now ],
                               table |-> Append(chunk.table, row_group) ]) ]
    /\ rb_registry' = Registry_observe(rb_registry, chunk.metrics, now)
    /\ ret' = [ op |-> op, kind |-> "Ok", val |-> c, err |-> None ]
    /\ UNCHANGED << guardVars, httpVars, readVars, orderVars, sysVars, idVars, lockVars, wireVars, chunkVars, catalogVars >>

\* Chunk::upsert_table_with_row_group(row_group)
Chunk_upsert_table_with_row_group ==
    \E c \in Slots, row_group \in RowGroups :
        /\ rb_chunks[c] # None
        /\ upsert("Chunk::upsert_table_with_row_group", c, row_group)

\* Chunk::upsert_table(table_data)
Chunk_upsert_table ==
    \E c \in Slots, i \in { 100, 200, 300 } :
        /\ rb_chunks[c] # None
        /\ upsert("Chunk::upsert_table", c, RowGroup_from(gen_recordbatch(i)))

\* drop(chunk): the recorders of its ChunkMetrics are dropped, and a
\* registered recorder takes back what it recorded
Chunk_drop ==
    \E c \in Slots :
        /\ rb_chunks[c] # None
        /\ rb_registry' = Registry_observe(rb_registry, rb_chunks[c][1].metrics, ZeroGauges)
        /\ rb_chunks' = [ rb_chunks EXCEPT ![c] = None ]
        /\ ret' = [ op |-> "drop", kind |-> "Ok", val |-> c, err |-> None ]
        /\ UNCHANGED << guardVars, httpVars, readVars, orderVars, sysVars, idVars, lockVars, wireVars, chunkVars, catalogVars >>

(***************************************************************************)
(* Queries of a read buffer chunk: read_buffer/src/chunk.rs; the table and *)
(* the row groups behind it follow sections 4.2, 4.3 and 4.7 of the        *)
(* specification                                                           *)
(***************************************************************************)
\* literals of a binary expression, tagged with their type
Str(v) == [ type |-> "string", value |-> v ]
I64(v) == [ type |-> "i64", value |-> v ]
F64(v) == [ type |-> "f64", value |-> v ]

\* BinaryExpr::from((column, op, literal))
BinaryExpr_from(column, op, literal) == [ column |-> column, op |-> op, literal |-> literal ]

\* Predicate::new(exprs), Predicate::default() and
\* Predicate::with_time_range(exprs, lo, hi): time >= lo AND time < hi
Predicate_new(exprs) == exprs
Predicate_default == << >>
Predicate_with_time_range(exprs, lo, hi) ==
    exprs \o << BinaryExpr_from("time", ">=", I64(lo)), BinaryExpr_from("time", "<", I64(hi)) >>

\* the strings of the table, in their order
StringOrder == << "east", "not a number", "us-east", "us-west", "west" >>
StringRank(v) == CHOOSE n \in 1 .. Len(StringOrder) : StringOrder[n] = v

\* a value compared with a literal of a compatible type
compare(op, a, b) ==
    CASE op = "=" -> a = b
      [] op = "!=" -> a # b
      [] op = "<" -> a < b
      [] op = "<=" -> a <= b
      [] op = ">" -> a > b
      [] op = ">=" -> a >= b

\* whether the literal can be compared with the column: a string with a
\* string column, a number with a numeric column
expr_is_valid(expr) ==
    IF ColumnEncoding(expr.column)[2] = "string"
      THEN expr.literal.type = "string"
      ELSE expr.literal.type \in { "i64", "f64" }

\* Table::validate_predicate
predicate_is_valid(predicate) ==
    \A n \in 1 .. Len(predicate) : expr_is_valid(predicate[n])

\* whether the row satisfies the expression; a NULL satisfies none
row_matches_expr(row, expr) ==
    /\ row[expr.column] # None
    /\ IF expr.literal.type = "string"
         THEN compare(expr.op, StringRank(row[expr.column][1]), StringRank(expr.literal.value))
         ELSE compare(expr.op, row[expr.column][1], expr.literal.value)

\* a predicate is the conjunction of its expressions; the empty one matches
\* every row
row_matches(row, predicate) ==
    \A n \in 1 .. Len(predicate) : row_matches_expr(row, predicate[n])

\* the positions of the rows of a row group that match the predicate and
\* none of the negated predicates
surviving_rows(rg, predicate, negated_predicates) ==
    { i \in 1 .. Len(rg) :
        /\ row_matches(rg[i], predicate)
        /\ \A n \in 1 .. Len(negated_predicates) :
               ~ row_matches(rg[i], negated_predicates[n]) }

\* Selection::All / Selection::Some(names)
Selection_All == [ kind |-> "All", names |-> << >> ]
Selection_Some(names) == [ kind |-> "Some", names |-> names ]

\* the columns a selection names
selected_columns(columns) ==
    IF columns.kind = "All" THEN Range(Columns) ELSE Range(columns.names)

\* the rows at the positions ids, in row order, with the columns cols
RECURSIVE materialise(_, _, _, _)
materialise(rg, ids, cols, i) ==
    IF i > Len(rg) THEN << >>
    ELSE ( IF i \in ids THEN << [ c \in cols |-> rg[i][c] ] >> ELSE << >> )
           \o materialise(rg, ids, cols, i + 1)

\* RowGroup::read_filter: the record batch of the surviving rows, if any
RowGroup_read_filter(rg, columns, predicate, negated_predicates) ==
    LET ids == surviving_rows(rg, predicate, negated_predicates)
    IN IF ids = {} THEN None
       ELSE Some(materialise(rg, ids, selected_columns(columns), 1))

\* the batches of the row groups of a table from the n-th on
RECURSIVE read_filter_from(_, _, _, _, _)
read_filter_from(table, n, columns, predicate, negated_predicates) ==
    IF n > Len(table) THEN << >>
    ELSE RowGroup_read_filter(table[n], columns, predicate, negated_predicates)
           \o read_filter_from(table, n + 1, columns, predicate, negated_predicates)

\* Table::read_filter: the predicate and every negated predicate are
\* validated, then each row group yields its batch
Table_read_filter(table, columns, predicate, negated_predicates) ==
    IF /\ predicate_is_valid(predicate)
       /\ \A n \in 1 .. Len(negated_predicates) : predicate_is_valid(negated_predicates[n])
      THEN Ok("read_filter",
              read_filter_from(table, 1, columns, predicate, negated_predicates))
      ELSE Err("read_filter", [ error |-> "PredicateInvalid" ])

\* the columns with a value that is not NULL in a surviving row
RowGroup_column_names(rg, predicate, negated_predicates, columns, dst) ==
    dst \cup { c \in selected_columns(columns) \cap Range(Columns) :
                 \E i \in surviving_rows(rg, predicate, negated_predicates) :
                     rg[i][c] # None }

RECURSIVE column_names_from(_, _, _, _, _, _)
column_names_from(table, n, predicate, negated_predicates, columns, dst) ==
    IF n > Len(table) THEN dst
    ELSE column_names_from(table, n + 1, predicate, negated_predicates, columns,
             RowGroup_column_names(table[n], predicate, negated_predicates, columns, dst))

\* Table::column_names
Table_column_names(table, predicate, negated_predicates, columns, dst) ==
    IF /\ predicate_is_valid(predicate)
       /\ \A n \in 1 .. Len(negated_predicates) : predicate_is_valid(negated_predicates[n])
      THEN Ok("column_names",
              column_names_from(table, 1, predicate, negated_predicates, columns, dst))
      ELSE Err("column_names", [ error |-> "PredicateInvalid" ])

\* the distinct values that are not NULL of the column c in the matching
\* rows of the table
column_values_of(table, predicate, c) ==
    UNION { { table[n][i][c][1] :
                i \in { j \in surviving_rows(table[n], predicate, << >>) :
                          table[n][j][c] # None } } :
            n \in 1 .. Len(table) }

\* Table::column_values: the values found are added to dst
Table_column_values(table, predicate, names, dst) ==
    IF predicate_is_valid(predicate)
      THEN Ok("column_values",
              [ c \in DOMAIN dst \cup (Range(names) \cap Range(Columns)) |->
                  ( IF c \in DOMAIN dst THEN dst[c] ELSE {} )
                    \cup ( IF c \in Range(names) \cap Range(Columns)
                             THEN column_values_of(table, predicate, c) ELSE {} ) ])
      ELSE Err("column_values", [ error |-> "PredicateInvalid" ])

\* .context(TableError): an error of the table becomes Error::TableError
context_TableError(result) ==
    IF result.kind = "Err"
      THEN [ result EXCEPT !.err = Some([ error |-> "TableError", source |-> result.err[1] ]) ]
      ELSE result

\* Chunk::read_filter(predicate, select_columns, negated_predicates) that
\* hands the table only the first negated predicate
Chunk_read_filter_first_negated(table, q) ==
    context_TableError(
        Table_read_filter(table, q.columns, q.predicate,
                          IF q.negated_predicates = << >> THEN << >>
                          ELSE << Head(q.negated_predicates) >>))

\* Chunk::read_filter that yields the batches of the row groups last to first
Chunk_read_filter_reversed(table, q) ==
    LET r == context_TableError(
                 Table_read_filter(table, q.columns, q.predicate, q.negated_predicates))
    IN IF r.kind = "Ok"
         THEN [ r EXCEPT !.val = [ n \in 1 .. Len(r.val) |-> r.val[Len(r.val) + 1 - n] ] ]
         ELSE r

\* Chunk::read_filter(predicate, select_columns, negated_predicates)
Chunk_read_filter_result(table, q) ==
    context_TableError(
        Table_read_filter(table, q.columns, q.predicate, q.negated_predicates))

\* Chunk::column_names that answers an error of the table with what the
\* caller passed in
Chunk_column_names_swallows(table, q) ==
    LET r == Table_column_names(table, q.predicate, q.negated_predicates,
                                q.columns, q.dst_names)
    IN IF r.kind = "Err" THEN Ok("column_names", q.dst_names) ELSE r

\* Chunk::column_names(predicate, negated_predicates, only_columns, dst)
Chunk_column_names_result(table, q) ==
    context_TableError(
        Table_column_names(table, q.predicate, q.negated_predicates,
                           q.columns, q.dst_names))

\* Chunk::column_values that lets the table see the predicate before it
\* looks at the selection
Chunk_column_values_predicate_first(table, q) ==
    IF ~ predicate_is_valid(q.predicate)
      THEN context_TableError(Err("column_values", [ error |-> "PredicateInvalid" ]))
      ELSE IF q.columns.kind = "All"
        THEN Err("column_values",
                 [ error |-> "UnsupportedOperation",
                   msg |-> "column_values does not support All columns" ])
        ELSE context_TableError(
                 Table_column_values(table, q.predicate, q.columns.names, q.dst_values))

\* Chunk::column_values(predicate, columns, dst)
Chunk_column_values_result(table, q) ==
    IF q.columns.kind = "All"
      THEN Err("column_values",
               [ error |-> "UnsupportedOperation",
                 msg |-> "column_values does not support All columns" ])
      ELSE context_TableError(
               Table_column_values(table, q.predicate, q.columns.names, q.dst_values))

\* the name the for loop of read_filter_table_schema stops at, if any
RECURSIVE first_missing(_)
first_missing(names) ==
    IF names = << >> THEN None
    ELSE IF Head(names) \notin Range(Columns) THEN Some(Head(names))
    ELSE first_missing(Tail(names))

\* read_filter_table_schema that reports the last name that is no column
Chunk_read_filter_table_schema_last(table, q) ==
    LET names == q.columns.names
        missing == { i \in 1 .. Len(names) : names[i] \notin Range(Columns) }
    IN IF q.columns.kind = "Some" /\ missing # {}
         THEN Err("read_filter_table_schema",
                  [ error |-> "ColumnDoesNotExist",
                    column_name |-> names[CHOOSE i \in missing : \A j \in missing : j <= i],
                    table_name |-> "Coolverine" ])
         ELSE Ok("read_filter_table_schema",
                 IF q.columns.kind = "All" THEN Columns ELSE names)

\* Chunk::read_filter_table_schema(columns): the schema is the sequence of
\* its column names
Chunk_read_filter_table_schema_result(table, q) ==
    IF q.columns.kind = "Some" /\ first_missing(q.columns.names) # None
      THEN Err("read_filter_table_schema",
               [ error |-> "ColumnDoesNotExist",
                 column_name |-> first_missing(q.columns.names)[1],
                 table_name |-> "Coolverine" ])
      ELSE Ok("read_filter_table_schema",
              IF q.columns.kind = "All" THEN Columns ELSE q.columns.names)

\* the four queries made on the chunk at hand with the arguments at hand;
\* read_filter is asked for columns of the table
Chunk_read_filter ==
    /\ rb_table # << >>
    /\ selected_columns(rb_query.columns) \subseteq Range(Columns)
    /\ ret' = Chunk_read_filter_result(rb_table, rb_query)
    /\ UNCHANGED << guardVars, httpVars, readVars, metricVars, orderVars, sysVars, idVars, lockVars, wireVars, chunkVars, catalogVars >>

Chunk_column_names ==
    /\ rb_table # << >>
    /\ ret' = Chunk_column_names_result(rb_table, rb_query)
    /\ UNCHANGED << guardVars, httpVars, readVars, metricVars, orderVars, sysVars, idVars, lockVars, wireVars, chunkVars, catalogVars >>

Chunk_column_values ==
    /\ rb_table # << >>
    /\ ret' = Chunk_column_values_result(rb_table, rb_query)
    /\ UNCHANGED << guardVars, httpVars, readVars, metricVars, orderVars, sysVars, idVars, lockVars, wireVars, chunkVars, catalogVars >>

Chunk_read_filter_table_schema ==
    /\ rb_table # << >>
    /\ ret' = Chunk_read_filter_table_schema_result(rb_table, rb_query)
    /\ UNCHANGED << guardVars, httpVars, readVars, metricVars, orderVars, sysVars, idVars, lockVars, wireVars, chunkVars, catalogVars >>

\* the expressions, predicates, selections and accumulators of the queries
ValidExprs ==
    { BinaryExpr_from("env", "=", Str("us-west")),
      BinaryExpr_from("region", "=", Str("west")),
      BinaryExpr_from("region", "!=", Str("west")),
      BinaryExpr_from("sketchy_sensor", ">", F64(40)),
      BinaryExpr_from("time", ">=", I64(200)) }
InvalidExprs ==
    { BinaryExpr_from("time", "=", Str("not a number")),
      BinaryExpr_from("env", "=", F64(22)) }
Predicates ==
    { Predicate_default }
      \cup { Predicate_new(<< e >>) : e \in ValidExprs \cup InvalidExprs }
      \cup { Predicate_with_time_range(<< e >>, 100, 205) :
               e \in { BinaryExpr_from("env", "=", Str("us-west")),
                       BinaryExpr_from("env", "=", F64(22)) } }
NegatedPredicates ==
    { Predicate_default, Predicate_new(<< BinaryExpr_from("time", "=", Str("not a number")) >>) }
      \cup { Predicate_new(<< e >>) : e \in ValidExprs \ { BinaryExpr_from("env", "=", Str("us-west")) } }
NegatedLists ==
    { << >> } \cup { << n >> : n \in NegatedPredicates }
              \cup { << n, m >> : n \in NegatedPredicates, m \in NegatedPredicates }
Selections ==
    { Selection_All,
      Selection_Some(<< "region", "env" >>),
      Selection_Some(<< "sketchy_sensor", "time", "region" >>),
      Selection_Some(<< "random column name" >>),
      Selection_Some(<< "env", "zone", "random column name" >>) }
Queries ==
    [ predicate : Predicates,
      negated_predicates : NegatedLists,
      columns : Selections,
      dst_names : { {}, { "region" } },
      dst_values : { << >>, [ c \in { "region" } |-> { "north" } ] } ]

\* the chunks queried: the chunk of read_filter_setup and chunks with fewer
\* row groups or another insertion order
Tables ==
    { << RowGroup_from(gen_recordbatch(100)), RowGroup_from(gen_recordbatch(200)),
         RowGroup_from(gen_recordbatch(300)) >>,
      << RowGroup_from(gen_recordbatch(300)), RowGroup_from(gen_recordbatch(100)) >>,
      << RowGroup_from(gen_recordbatch(200)) >> }

\* no read buffer chunk is queried
NoQuery ==
    /\ rb_table = << >>
    /\ rb_query = << >>

(***************************************************************************)
(* HTTP write route: influxdb_iox/src/influxdb_ioxd/http/write.rs          *)
(***************************************************************************)
\* the query strings of a request: none, one that is no list of pairs, one
\* that lacks the bucket, and three that name an org and a bucket
QueryStrings ==
    { None,
      Some("%"),
      Some("org=MyOrg"),
      Some("bucket=MyBucket&org=MyOrg"),
      Some("bucket=NotMyBucket&org=MyOrg"),
      Some("bucket=My_Bucket&org=MyOrg") }

\* serde_urlencoded::from_str::<WriteInfo>(query)
WriteInfo_from_str(query) ==
    CASE query = "bucket=MyBucket&org=MyOrg" -> Some([ org |-> "MyOrg", bucket |-> "MyBucket" ])
      [] query = "bucket=NotMyBucket&org=MyOrg" -> Some([ org |-> "MyOrg", bucket |-> "NotMyBucket" ])
      [] query = "bucket=My_Bucket&org=MyOrg" -> Some([ org |-> "MyOrg", bucket |-> "My_Bucket" ])
      [] OTHER -> None

\* org_and_bucket_to_database: "<org>_<bucket>", an error if the bucket
\* holds the separator
org_and_bucket_to_database(org, bucket) ==
    CASE bucket = "MyBucket" -> Some("MyOrg_MyBucket")
      [] bucket = "NotMyBucket" -> Some("MyOrg_NotMyBucket")
      [] OTHER -> None

\* the bodies of a request: larger than max_request_size, no UTF-8, without
\* a line, a line that is no line protocol, a line, and a line of a field
\* type the table refuses
Bodies == { "too large", "not utf8", "", "cpu bar", "cpu bar=1 10", "cpu bar=\"incompatible\" 10" }

\* parse_body(req, max_request_size)
parse_body(body) == IF body = "too large" THEN None ELSE Some(body)
\* std::str::from_utf8(&body)
from_utf8(body) == IF body = "not utf8" THEN None ELSE Some(body)

\* mutable_batch_lp::lines_to_batches_stats(body, default_time)
lines_to_batches_stats(body) ==
    CASE body = "" -> [ kind |-> "Err", error |-> "EmptyPayload" ]
      [] body = "cpu bar" -> [ kind |-> "Err", error |-> "LineProtocol" ]
      [] OTHER -> [ kind |-> "Ok", tables |-> body ]

\* the databases of the server
Databases == { "MyOrg_MyBucket" }

\* ServerType::write(db_name, write): what it may answer
InnerWriteResults(db_name, write) ==
    IF db_name \notin Databases THEN { "NotFound" }
    ELSE IF write = "cpu bar=1 10" THEN { "Ok", "OtherError" }
    ELSE { "OtherError" }

\* HttpApiError: the status code of each kind of error
HttpApiError_status(kind) ==
    CASE kind = "invalid" -> 400
      [] kind = "not_found" -> 404
      [] kind = "internal_error" -> 500

\* HttpWriteError that calls every error internal
to_http_api_error_internal(e) == "internal_error"

\* HttpWriteError::to_http_api_error
to_http_api_error(e) ==
    CASE e = "BucketMappingError" -> "internal_error"
      [] e = "WritingPoints" -> "internal_error"
      [] e = "ExpectedQueryString" -> "invalid"
      [] e = "InvalidQueryString" -> "invalid"
      [] e = "ReadingBodyAsUtf8" -> "invalid"
      [] e = "ParsingLineProtocol" -> "invalid"
      [] e = "DatabaseNotFound" -> "not_found"
      [] e = "ParseBody" -> "invalid"

\* Err(HttpWriteError) as the router answers it
HttpWriteError(e) ==
    Err("route_write_http_request",
        [ error |-> e,
          api |-> to_http_api_error(e),
          status |-> HttpApiError_status(to_http_api_error(e)) ])

\* Response::builder().status(StatusCode::NO_CONTENT).body(Body::empty())
NO_CONTENT ==
    Ok("route_write_http_request", [ routed |-> TRUE, status |-> 204, body |-> "" ])

\* the requests a client sends
Requests ==
    [ method : { "POST", "GET" },
      path : { "/api/v2/write", "/health" },
      query : QueryStrings,
      body : Bodies ]

\* Ok(RequestOrResponse::Request(req)): the request is handed back
RequestOrResponse_Request(req) ==
    Ok("route_write_http_request", [ routed |-> FALSE, request |-> req ])

\* a route that looks the database up before it reads the body
route_database_first(req, inner) ==
    LET unwritten(r) == [ ret |-> r, writes |-> http_writes, lp_metrics |-> http_lp_metrics ]
        write_info == WriteInfo_from_str(req.query[1])
        db_name == org_and_bucket_to_database(write_info[1].org, write_info[1].bucket)
        lp == lines_to_batches_stats(req.body)
        recorded(ok) == Append(http_lp_metrics, [ db_name |-> db_name[1], ok |-> ok ])
        called == Append(http_writes, db_name[1])
    IN
    IF req.method # "POST" \/ req.path # "/api/v2/write"
      THEN unwritten(RequestOrResponse_Request(req))
    ELSE IF req.query = None THEN unwritten(HttpWriteError("ExpectedQueryString"))
    ELSE IF write_info = None THEN unwritten(HttpWriteError("InvalidQueryString"))
    ELSE IF db_name = None THEN unwritten(HttpWriteError("BucketMappingError"))
    ELSE IF db_name[1] \notin Databases THEN unwritten(HttpWriteError("DatabaseNotFound"))
    ELSE IF parse_body(req.body) = None THEN unwritten(HttpWriteError("ParseBody"))
    ELSE IF from_utf8(req.body) = None THEN unwritten(HttpWriteError("ReadingBodyAsUtf8"))
    ELSE IF lp.kind = "Err"
      THEN IF lp.error = "EmptyPayload"
             THEN unwritten(NO_CONTENT)
             ELSE unwritten(HttpWriteError("ParsingLineProtocol"))
    ELSE CASE inner = "Ok" ->
                [ ret |-> NO_CONTENT, writes |-> called, lp_metrics |-> recorded(TRUE) ]
           [] inner = "NotFound" ->
                [ ret |-> HttpWriteError("DatabaseNotFound"), writes |-> called,
                  lp_metrics |-> http_lp_metrics ]
           [] inner = "OtherError" ->
                [ ret |-> HttpWriteError("WritingPoints"), writes |-> called,
                  lp_metrics |-> recorded(FALSE) ]

\* a route that records the ingest metrics of a write to a database the
\* server does not know
route_records_not_found(req, inner) ==
    LET unwritten(r) == [ ret |-> r, writes |-> http_writes, lp_metrics |-> http_lp_metrics ]
        write_info == WriteInfo_from_str(req.query[1])
        db_name == org_and_bucket_to_database(write_info[1].org, write_info[1].bucket)
        lp == lines_to_batches_stats(req.body)
        recorded(ok) == Append(http_lp_metrics, [ db_name |-> db_name[1], ok |-> ok ])
        called == Append(http_writes, db_name[1])
    IN
    IF req.method # "POST" \/ req.path # "/api/v2/write"
      THEN unwritten(RequestOrResponse_Request(req))
    ELSE IF req.query = None THEN unwritten(HttpWriteError("ExpectedQueryString"))
    ELSE IF write_info = None THEN unwritten(HttpWriteError("InvalidQueryString"))
    ELSE IF db_name = None THEN unwritten(HttpWriteError("BucketMappingError"))
    ELSE IF parse_body(req.body) = None THEN unwritten(HttpWriteError("ParseBody"))
    ELSE IF from_utf8(req.body) = None THEN unwritten(HttpWriteError("ReadingBodyAsUtf8"))
    ELSE IF lp.kind = "Err"
      THEN IF lp.error = "EmptyPayload"
             THEN unwritten(NO_CONTENT)
             ELSE unwritten(HttpWriteError("ParsingLineProtocol"))
    ELSE CASE inner = "Ok" ->
                [ ret |-> NO_CONTENT, writes |-> called, lp_metrics |-> recorded(TRUE) ]
           [] inner = "NotFound" ->
                [ ret |-> HttpWriteError("DatabaseNotFound"), writes |-> called,
                  lp_metrics |-> recorded(FALSE) ]
           [] inner = "OtherError" ->
                [ ret |-> HttpWriteError("WritingPoints"), writes |-> called,
                  lp_metrics |-> recorded(FALSE) ]

\* what route_write_http_request answers and does to the histories, for
\* the request req and the answer inner of ServerType::write
route(req, inner) ==
    LET unwritten(r) == [ ret |-> r, writes |-> http_writes, lp_metrics |-> http_lp_metrics ]
        write_info == WriteInfo_from_str(req.query[1])
        db_name == org_and_bucket_to_database(write_info[1].org, write_info[1].bucket)
        lp == lines_to_batches_stats(req.body)
        recorded(ok) == Append(http_lp_metrics, [ db_name |-> db_name[1], ok |-> ok ])
        called == Append(http_writes, db_name[1])
    IN
    IF req.method # "POST" \/ req.path # "/api/v2/write"
      THEN unwritten(RequestOrResponse_Request(req))
    ELSE IF req.query = None THEN unwritten(HttpWriteError("ExpectedQueryString"))
    ELSE IF write_info = None THEN unwritten(HttpWriteError("InvalidQueryString"))
    ELSE IF db_name = None THEN unwritten(HttpWriteError("BucketMappingError"))
    ELSE IF parse_body(req.body) = None THEN unwritten(HttpWriteError("ParseBody"))
    ELSE IF from_utf8(req.body) = None THEN unwritten(HttpWriteError("ReadingBodyAsUtf8"))
    ELSE IF lp.kind = "Err"
      THEN IF lp.error = "EmptyPayload"
             THEN unwritten(NO_CONTENT)
             ELSE unwritten(HttpWriteError("ParsingLineProtocol"))
    ELSE CASE inner = "Ok" ->
                [ ret |-> NO_CONTENT, writes |-> called, lp_metrics |-> recorded(TRUE) ]
           [] inner = "NotFound" ->
                [ ret |-> HttpWriteError("DatabaseNotFound"), writes |-> called,
                  lp_metrics |-> http_lp_metrics ]
           [] inner = "OtherError" ->
                [ ret |-> HttpWriteError("WritingPoints"), writes |-> called,
                  lp_metrics |-> recorded(FALSE) ]

\* HttpDrivenWrite::route_write_http_request(req)
route_write_http_request ==
    /\ Len(http_writes) < MaxWriteCalls
    /\ \E req \in Requests :
       \E inner \in { "Ok", "NotFound", "OtherError" } :
           LET db_name == org_and_bucket_to_database("MyOrg",
                              IF WriteInfo_from_str(req.query[1]) = None THEN ""
                              ELSE WriteInfo_from_str(req.query[1])[1].bucket)
               out == route(req, inner)
           IN /\ req.query # None /\ db_name # None
                    => inner \in InnerWriteResults(db_name[1], req.body)
              /\ ( req.query = None \/ db_name = None ) => inner = "Ok"
              /\ http_req' = Some(req)
              /\ ret' = out.ret
              /\ http_writes' = out.writes
              /\ http_lp_metrics' = out.lp_metrics
    /\ UNCHANGED << guardVars, readVars, metricVars, orderVars, sysVars, idVars, lockVars, wireVars, chunkVars, catalogVars >>

\* no HTTP request was handled
NoHttp ==
    /\ http_req = None
    /\ http_writes = << >>
    /\ http_lp_metrics = << >>

(***************************************************************************)
(* A catalog chunk behind its lock: Arc<RwLock<CatalogChunk>>              *)
(***************************************************************************)
\* the threads that move the chunk through its lifecycle and the threads
\* that query it
LifecycleThreads == { "m1", "m2" }
QueryThreads == { "q1", "q2" }

\* the calls made under chunk.write(), with their arguments, and the calls
\* made under chunk.read()
LifecycleCalls ==
    { << "set_closing", None >>, << "set_moving", None >>,
      << "set_writing_to_object_store", None >> }
      \cup { << "set_moved", Some(db) >> : db \in ReadBufferDbs }
      \cup { << "set_written_to_object_store", Some(pq) >> : pq \in ParquetChunks }
QueryCalls == { "summary", "has_table", "size", "filtered_chunks map" }

\* what a reader has read of the chunk so far
NothingSeen == [ state |-> None, time_closing |-> None ]
\* a thread that is in no call on the chunk
NotInChunk ==
    [ op |-> "none", at |-> "idle", s |-> None, arg |-> None,
      before |-> None, seen |-> NothingSeen ]

\* the match of a set_* method on the state s it swapped out: the state it
\* installs, time_closing and what it returns
match_swapped(op, s, arg, now) ==
    LET same(expected, doing) ==
            [ state |-> s, time_closing |-> time_closing,
              ret |-> Err(op, unexpected_state(doing, expected, s)) ]
        done(new, v) == [ state |-> new, time_closing |-> time_closing, ret |-> Ok(op, v) ]
    IN CASE op = "set_closing" ->
              IF Variant(s) \in { "Open", "Closing" }
                THEN IF time_closing # None
                       THEN [ state |-> Invalid, time_closing |-> time_closing,
                              ret |-> Panic(op) ]
                       ELSE [ state |-> Closing(s[2]), time_closing |-> Some(now),
                              ret |-> Ok(op, None) ]
                ELSE same("Open or Closing", "setting closing")
         [] op = "set_moving" ->
              IF Variant(s) \in { "Open", "Closing" }
                THEN done(Moving(s[2]), Some(s[2]))
                ELSE same("Open or Closing", "setting moving")
         [] op = "set_moved" ->
              IF Variant(s) = "Moving"
                THEN done(Moved(arg[1]), None)
                ELSE same("Moving", "setting moved")
         [] op = "set_writing_to_object_store" ->
              IF Variant(s) = "Moved"
                THEN done(WritingToObjectStore(s[2]), Some(s[2]))
                ELSE same("Moved", "setting object store")
         [] op = "set_written_to_object_store" ->
              IF Variant(s) = "WritingToObjectStore"
                THEN done(WrittenToObjectStore(s[2], arg[1]), None)
                ELSE same("MovingToObjectStore", "setting object store")

\* chunk.write(): the thread gets the write guard and enters a set_* method
chunk_write(t) ==
    /\ chunk_pc[t].at = "idle"
    /\ chunk_lock.writer = None /\ chunk_lock.readers = {}
    /\ \E c \in LifecycleCalls :
           chunk_pc' = [ chunk_pc EXCEPT ![t] =
                           [ NotInChunk EXCEPT !.op = c[1], !.arg = c[2], !.at = "swap" ] ]
    /\ chunk_lock' = [ chunk_lock EXCEPT !.writer = Some(t) ]
    /\ UNCHANGED << orderVars, metricVars, readVars, httpVars, sysVars, idVars, lockVars, wireVars,
                    catalogVars, chunkVars, ret >>

\* let mut s = ChunkState::Invalid; std::mem::swap(&mut s, &mut self.state)
mem_swap(t) ==
    /\ chunk_pc[t].at = "swap"
    /\ chunk_pc' = [ chunk_pc EXCEPT ![t].s = Some(state), ![t].at = "match" ]
    /\ state' = Invalid
    /\ UNCHANGED << orderVars, metricVars, readVars, httpVars, sysVars, idVars, lockVars, wireVars,
                    catalogVars, chunk_lock, partition_key, id, time_of_first_write,
                    time_of_last_write, time_closing, writes, ret >>

\* match s { ... }: the new state is installed, or the old one put back, or
\* the assertion of set_closing fails before either
match_s(t) ==
    /\ chunk_pc[t].at = "match"
    /\ \E now \in Times :
           LET out == match_swapped(chunk_pc[t].op, chunk_pc[t].s[1], chunk_pc[t].arg, now)
           IN /\ state' = out.state
              /\ time_closing' = out.time_closing
              /\ ret' = out.ret
    /\ chunk_pc' = [ chunk_pc EXCEPT ![t].at = "drop" ]
    /\ UNCHANGED << orderVars, metricVars, readVars, httpVars, sysVars, idVars, lockVars, wireVars,
                    catalogVars, chunk_lock, partition_key, id, time_of_first_write,
                    time_of_last_write, writes >>

\* the write guard is dropped, at the return or while the panic unwinds
drop_write_guard(t) ==
    /\ chunk_pc[t].at = "drop"
    /\ chunk_lock.writer = Some(t)
    /\ chunk_lock' = [ chunk_lock EXCEPT !.writer = None ]
    /\ chunk_pc' = [ chunk_pc EXCEPT ![t] = NotInChunk ]
    /\ UNCHANGED << orderVars, metricVars, readVars, httpVars, sysVars, idVars, lockVars, wireVars,
                    catalogVars, chunkVars, ret >>

\* chunk.read(): the thread gets a read guard and enters a call
chunk_read(t) ==
    /\ chunk_pc[t].at = "idle"
    /\ chunk_lock.writer = None
    /\ \E op \in QueryCalls :
           chunk_pc' = [ chunk_pc EXCEPT ![t] =
                           [ NotInChunk EXCEPT
                               !.op = op, !.at = "state",
                               !.before = Some([ state |-> state,
                                                 time_closing |-> time_closing ]) ] ]
    /\ chunk_lock' = [ chunk_lock EXCEPT !.readers = @ \cup { t } ]
    /\ UNCHANGED << orderVars, metricVars, readVars, httpVars, sysVars, idVars, lockVars, wireVars,
                    catalogVars, chunkVars, ret >>

\* match &self.state of has_table and size, DBChunk::snapshot(self) of
\* summary
read_state(t) ==
    /\ chunk_pc[t].at = "state"
    /\ chunk_pc' = [ chunk_pc EXCEPT
                       ![t].seen.state = Some(state),
                       ![t].at = IF chunk_pc[t].op \in { "summary", "filtered_chunks map" }
                                   THEN "times" ELSE "drop" ]
    /\ UNCHANGED << orderVars, metricVars, readVars, httpVars, sysVars, idVars, lockVars, wireVars,
                    catalogVars, chunkVars, chunk_lock, ret >>

\* time_closing: self.time_closing of summary
read_times(t) ==
    /\ chunk_pc[t].at = "times"
    /\ chunk_pc' = [ chunk_pc EXCEPT ![t].seen.time_closing = Some(time_closing),
                                     ![t].at = "drop" ]
    /\ UNCHANGED << orderVars, metricVars, readVars, httpVars, sysVars, idVars, lockVars, wireVars,
                    catalogVars, chunkVars, chunk_lock, ret >>

\* the read guard is dropped and the call returns what it read
drop_read_guard(t) ==
    /\ chunk_pc[t].at = "drop"
    /\ t \in chunk_lock.readers
    /\ chunk_lock' = [ chunk_lock EXCEPT !.readers = @ \ { t } ]
    /\ ret' = Ok(chunk_pc[t].op, Some(chunk_pc[t].seen))
    /\ chunk_pc' = [ chunk_pc EXCEPT ![t] = NotInChunk ]
    /\ UNCHANGED << orderVars, metricVars, readVars, httpVars, sysVars, idVars, lockVars, wireVars,
                    catalogVars, chunkVars >>

\* no thread is in a call on the chunk
NoGuard ==
    /\ chunk_lock = Unlocked
    /\ chunk_pc = [ t \in LifecycleThreads \cup QueryThreads |-> NotInChunk ]

(***************************************************************************)
(* system.chunk_columns: server/src/db/system_tables/columns.rs            *)
(***************************************************************************)
\* the longest list of column sizes of a chunk
MaxColumnSizes == 3

\* ColumnSummary: a column of a table summary with its row count
ColumnSummary(name, total_count) == [ name |-> name, total_count |-> total_count ]

\* the column lists of the table summary of the first chunk
TableSummaryColumns ==
    { << >>,
      << ColumnSummary("c1", 55) >>,
      << ColumnSummary("c1", 55), ColumnSummary("c2", 66) >>,
      << ColumnSummary("c2", 66), ColumnSummary("c1", 55) >> }

\* ChunkColumnSummary: the size of a column of a chunk; Chunk::column_sizes
\* may give several entries for one column
ChunkColumnSummaries ==
    { [ name |-> "c1", memory_bytes |-> 11 ],
      [ name |-> "c1", memory_bytes |-> 12 ],
      [ name |-> "c2", memory_bytes |-> 12 ] }

\* Chunk::column_sizes: the lists of column sizes of a chunk
column_sizes == UNION { [ 1 .. n -> ChunkColumnSummaries ] : n \in 0 .. MaxColumnSizes }

\* the read buffer chunk 42 of table t1 with its table summary
FirstChunk(columns, sizes) ==
    [ table_summary |-> [ name |-> "t1", columns |-> columns ],
      chunk_summary |->
          [ inner |-> [ partition_key |-> "p1", id |-> 42, table_name |-> "t1",
                        storage |-> "ReadBuffer" ],
            columns |-> sizes ] ]

\* the open chunk 43 of table t1 with its table summary
SecondChunk ==
    [ table_summary |-> [ name |-> "t1", columns |-> << ColumnSummary("c1", 667) >> ],
      chunk_summary |->
          [ inner |-> [ partition_key |-> "p2", id |-> 43, table_name |-> "t1",
                        storage |-> "OpenMutableBuffer" ],
            columns |-> << [ name |-> "c1", memory_bytes |-> 100 ] >> ] ]

\* rows: one EachColumn per column of the table summary of each chunk
EachColumn(summaries) ==
    flatten([ i \in DOMAIN summaries |->
                [ j \in DOMAIN summaries[i].table_summary.columns |->
                    [ chunk_summary |-> summaries[i].chunk_summary,
                      column_summary |-> summaries[i].table_summary.columns[j] ] ] ])

\* .collect::<HashMap<_, _>>() of (name, memory_bytes): an entry replaces
\* the entry of the same name before it
HashMap_collect(entries) ==
    [ name \in { entries[i].name : i \in DOMAIN entries } |->
        LET last == CHOOSE i \in DOMAIN entries :
                        /\ entries[i].name = name
                        /\ \A j \in DOMAIN entries : entries[j].name = name => j <= i
        IN entries[last].memory_bytes ]

\* column_sizes.remove(name) for each column of the table summary in turn
RECURSIVE remove_each(_, _)
remove_each(columns, sizes) ==
    IF columns = << >> THEN << >>
    ELSE LET name == Head(columns).name
         IN IF name \in DOMAIN sizes
              THEN << Some(sizes[name]) >>
                       \o remove_each(Tail(columns), [ k \in DOMAIN sizes \ { name } |-> sizes[k] ])
              ELSE << None >> \o remove_each(Tail(columns), sizes)

\* memory_bytes: per chunk, the size of each column of the table summary
memory_bytes(summaries) ==
    flatten([ i \in DOMAIN summaries |->
                remove_each(summaries[i].table_summary.columns,
                            HashMap_collect(summaries[i].chunk_summary.columns)) ])

\* the record batch of assemble_chunk_columns, array by array
chunk_columns(summaries) ==
    LET rows == EachColumn(summaries)
        array(f(_)) == [ k \in DOMAIN rows |-> f(rows[k]) ]
        partition_key_of(each) == each.chunk_summary.inner.partition_key
        chunk_id_of(each) == each.chunk_summary.inner.id
        table_name_of(each) == each.chunk_summary.inner.table_name
        column_name_of(each) == each.column_summary.name
        storage_of(each) == each.chunk_summary.inner.storage
        row_count_of(each) == each.column_summary.total_count
    IN [ partition_key |-> array(partition_key_of),
         chunk_id |-> array(chunk_id_of),
         table_name |-> array(table_name_of),
         column_name |-> array(column_name_of),
         storage |-> array(storage_of),
         row_count |-> array(row_count_of),
         memory_bytes |-> memory_bytes(summaries) ]

\* assemble_chunk_columns(schema, summaries)
assemble_chunk_columns ==
    /\ cc_chunks # << >>
    /\ ret' = Ok("assemble_chunk_columns", Some(chunk_columns(cc_chunks)))
    /\ UNCHANGED << orderVars, metricVars, readVars, httpVars, guardVars, sysVars, idVars,
                    lockVars, wireVars, catalogVars, chunkVars >>

\* DetailedChunkSummary.columns comes in no order that is promised: two of
\* the entries of the first chunk change places
column_sizes_reordered ==
    /\ cc_chunks # << >>
    /\ \E i, j \in DOMAIN cc_chunks[1].chunk_summary.columns :
           LET sizes == cc_chunks[1].chunk_summary.columns
           IN /\ i < j
              /\ sizes[i] # sizes[j]
              /\ cc_chunks' = [ cc_chunks EXCEPT ![1].chunk_summary.columns =
                                  [ sizes EXCEPT ![i] = sizes[j], ![j] = sizes[i] ] ]
    /\ UNCHANGED << orderVars, metricVars, readVars, httpVars, guardVars, idVars,
                    lockVars, wireVars, catalogVars, chunkVars, ret >>

\* system.chunk_columns is not built
NoColumns == cc_chunks = << >>

(***************************************************************************)
(* ChunkId and its rendering: data_types/src/chunk_metadata.rs             *)
(***************************************************************************)
\* a u128 is written as its eight 16-bit limbs, the most significant first
U128(n) == << 0, 0, 0, 0, 0, 0, 0, n >>

\* the integers handed to ChunkId::new_test: small ones, and ones with bits
\* set in the seventh and ninth byte
TestIntegers ==
    { U128(0), U128(1), U128(42),
      << 0, 0, 0, 16384, 32768, 0, 0, 0 >>,
      << 0, 0, 0, 16384, 0, 0, 0, 42 >>,
      << 0, 0, 0, 4096, 32768, 0, 0, 42 >>,
      << 65535, 65535, 65535, 65535, 65535, 65535, 65535, 65535 >> }

\* Uuid::from_u128 on the limbs of the integer: the sixteen bytes, big-endian
Uuid_from_u128_limbs(n) ==
    [ i \in 1 .. UuidLen |->
        IF i % 2 = 1 THEN n[(i + 1) \div 2] \div 256 ELSE n[i \div 2] % 256 ]

\* Uuid::as_u128
Uuid_as_u128(uuid) == [ k \in 1 .. 8 |-> uuid[2 * k - 1] * 256 + uuid[2 * k] ]

\* Uuid::get_version: the high half of the seventh byte
Uuid_get_version(uuid) ==
    CASE uuid[7] \div 16 = 1 -> Some("Mac")
      [] uuid[7] \div 16 = 2 -> Some("Dce")
      [] uuid[7] \div 16 = 3 -> Some("Md5")
      [] uuid[7] \div 16 = 4 -> Some("Random")
      [] uuid[7] \div 16 = 5 -> Some("Sha1")
      [] OTHER -> None

\* Uuid::get_variant: the high bits of the ninth byte
Uuid_get_variant(uuid) ==
    CASE uuid[9] \div 128 = 0 -> Some("NCS")
      [] uuid[9] \div 64 = 2 -> Some("RFC4122")
      [] uuid[9] \div 32 = 6 -> Some("Microsoft")
      [] OTHER -> Some("Future")

\* the bytes the random number generator may give
RandomBytes ==
    { [ i \in 1 .. UuidLen |-> 0 ],
      [ i \in 1 .. UuidLen |-> 255 ],
      [ i \in 1 .. UuidLen |-> 16 * i + 3 ] }

\* Uuid::new_v4: random bytes with the version and the variant set
Uuid_new_v4 ==
    { [ i \in 1 .. UuidLen |->
          CASE i = 7 -> ( bytes[i] % 16 ) + 64
            [] i = 9 -> ( bytes[i] % 64 ) + 128
            [] OTHER -> bytes[i] ] : bytes \in RandomBytes }

\* f.debug_tuple("ChunkId").field(..).finish(): the text ChunkId(..) with
\* the field written as a UUID or as an integer
debug_tuple(form, field) == [ name |-> "ChunkId", form |-> form, field |-> field ]

\* <ChunkId as Display>::fmt
ChunkId_fmt(chunk_id) ==
    IF /\ Uuid_get_variant(chunk_id.uuid) = Some("RFC4122")
       /\ Uuid_get_version(chunk_id.uuid) = Some("Random")
      THEN debug_tuple("uuid", chunk_id.uuid)
      ELSE debug_tuple("integer", Uuid_as_u128(chunk_id.uuid))

\* the names of the ids at hand
IdNames == { "a", "b" }

\* ChunkId::new_test(n)
new_test(x) ==
    /\ \E n \in TestIntegers :
           LET chunk_id == ChunkId(Uuid_from_u128_limbs(n))
           IN /\ chunk_ids' = [ chunk_ids EXCEPT ![x] =
                                  Some([ made_by |-> "new_test", n |-> Some(n), id |-> chunk_id ]) ]
              /\ ret' = Ok("new_test", Some(chunk_id))
    /\ UNCHANGED << orderVars, metricVars, readVars, httpVars, guardVars, sysVars,
                    lockVars, wireVars, catalogVars, chunkVars >>

\* ChunkId::new()
new_random(x) ==
    /\ \E uuid \in Uuid_new_v4 :
           /\ chunk_ids' = [ chunk_ids EXCEPT ![x] =
                               Some([ made_by |-> "new", n |-> None, id |-> ChunkId(uuid) ]) ]
           /\ ret' = Ok("new", Some(ChunkId(uuid)))
    /\ UNCHANGED << orderVars, metricVars, readVars, httpVars, guardVars, sysVars,
                    lockVars, wireVars, catalogVars, chunkVars >>

\* format!("{}", id)
Display_fmt(x) ==
    /\ chunk_ids[x] # None
    /\ ret' = Ok("Display", Some([ of |-> x, text |-> ChunkId_fmt(chunk_ids[x][1].id) ]))
    /\ UNCHANGED << orderVars, metricVars, readVars, httpVars, guardVars, sysVars, idVars,
                    lockVars, wireVars, catalogVars, chunkVars >>

\* format!("{:?}", id): <Self as std::fmt::Display>::fmt(self, f)
Debug_fmt(x) ==
    /\ chunk_ids[x] # None
    /\ ret' = Ok("Debug", Some([ of |-> x, text |-> ChunkId_fmt(chunk_ids[x][1].id) ]))
    /\ UNCHANGED << orderVars, metricVars, readVars, httpVars, guardVars, sysVars, idVars,
                    lockVars, wireVars, catalogVars, chunkVars >>

\* no ChunkId is at hand
NoIds == chunk_ids = [ x \in IdNames |-> None ]

\* no thread is inside the catalog, and n calls will be made
Calls(n) ==
    /\ pc = [ p \in Procs |-> Idle("none", {}) ]
    /\ locks = [ l \in LockIds |-> Unlocked ]
    /\ snaps = [ p \in Procs |-> {} ]
    /\ budget = n

NoCalls == Calls(0)

\* the parts a specification does not follow stay as they are constructed
Elsewhere == NoOrder /\ NoReadBuffer /\ NoQuery /\ NoHttp /\ NoGuard /\ NoColumns /\ NoIds

vars == << chunkVars, catalogVars, wireVars, lockVars, extVars, ret >>

Init ==
    /\ \E pk \in PartitionKeys, i \in ChunkIdsU32 : new_open(pk, i)
    /\ writes = << >>
    /\ tables = << >>
    /\ tables_order = << >>
    /\ wire_summary = None
    /\ wire_proto = None
    /\ created = [ a \in Addrs |-> << >> ]
    /\ NoCalls
    /\ Elsewhere
    /\ ret = NoCall

NextLifecycle ==
    \/ record_write
    \/ mutable_buffer
    \/ set_closing
    \/ set_moving
    \/ set_moved
    \/ set_writing_to_object_store
    \/ set_written_to_object_store

SpecLifecycle == Init /\ [][NextLifecycle]_vars

NextCatalog ==
    \/ get_or_create_table
    \/ get_or_create_partition
    \/ create_open_chunk
    \/ drop_chunk

\* the catalog operations never touch the stand-alone chunk: one
\* construction of it is followed
InitCatalog ==
    /\ Init
    /\ partition_key = "p1"
    /\ id = 0

SpecCatalog == InitCatalog /\ [][NextCatalog]_vars

\* the catalog with its lookups
NextQueries ==
    \/ get_or_create_table
    \/ get_or_create_partition
    \/ create_open_chunk
    \/ drop_chunk
    \/ Catalog_table
    \/ Catalog_partition
    \/ Catalog_chunk

SpecQueries == InitCatalog /\ [][NextQueries]_vars

\* the catalog with its listings
NextListings ==
    \/ get_or_create_table
    \/ get_or_create_partition
    \/ create_open_chunk
    \/ drop_chunk
    \/ filtered_chunks
    \/ chunk_summaries
    \/ table_names
    \/ partition_summaries

SpecListings == InitCatalog /\ [][NextListings]_vars

\* the conversion of chunk summaries to and from their messages
NextWire ==
    \/ Wire_encode
    \/ Wire_decode

\* a summary to encode and decode again, or a message that arrived
InitWire ==
    /\ new_open("p1", 0)
    /\ writes = << >>
    /\ tables = << >>
    /\ tables_order = << >>
    /\ created = [ a \in Addrs |-> << >> ]
    /\ NoCalls
    /\ Elsewhere
    /\ ret = NoCall
    /\ \/ /\ wire_summary \in { Some(summary) : summary \in Summaries }
          /\ wire_proto = None
       \/ /\ wire_summary = None
          /\ wire_proto \in { Some(proto) : proto \in WireChunks }

SpecWire == InitWire /\ [][NextWire]_vars

\* what a thread does inside the catalog once it has called
proceed(p) ==
    \/ RwLock_lock(p)
    \/ filtered_chunks_step(p)
    \/ create_open_chunk_step(p)
    \/ drop_chunk_step(p)
    \/ get_or_create_partition_step(p)
    \/ chunk_step(p)
    \/ chunks_step(p)

\* threads calling into one catalog concurrently
NextLocks ==
    \E p \in Procs :
        \/ filtered_chunks_call(p)
        \/ create_open_chunk_call(p)
        \/ drop_chunk_call(p)
        \/ get_or_create_partition_call(p)
        \/ chunk_call(p)
        \/ chunks_call(p)
        \/ proceed(p)

\* the catalog the threads start on: table t1 with the empty partition p1
\* and the partition p2 holding the chunk 1
TestCatalog ==
    /\ new_open("p1", 0)
    /\ writes = << >>
    /\ tables = [ t \in {"t1"} |->
                    [ k \in {"p1", "p2"} |->
                        IF k = "p1" THEN Partition_new
                        ELSE [ chunks |-> { [ id |-> 1, order |-> ChunkOrder_MIN ] },
                               next_chunk_order |-> ChunkOrder_next(ChunkOrder_MIN)[1] ] ] ]
    /\ tables_order = << "t1" >>
    /\ created = [ a \in Addrs |->
                     IF a = << "t1", "p2" >>
                       THEN << [ id |-> 1, order |-> ChunkOrder_MIN ] >>
                       ELSE << >> ]
    /\ wire_summary = None
    /\ wire_proto = None
    /\ ret = NoCall

\* the threads make MaxOps calls in all
InitLocks == TestCatalog /\ Calls(MaxOps) /\ Elsewhere

SpecLocks == InitLocks /\ [][NextLocks]_vars

\* the threads make MaxFairOps calls in all
InitLocksFair == TestCatalog /\ Calls(MaxFairOps) /\ Elsewhere

\* every thread inside the catalog is scheduled again
SpecLocksFair ==
    InitLocksFair /\ [][NextLocks]_vars /\ \A p \in Procs : WF_vars(proceed(p))

\* a ChunkOrder made from each u32 and advanced
NextOrder ==
    \/ Order_new
    \/ Order_get
    \/ Order_next

InitOrder ==
    /\ new_open("p1", 0)
    /\ writes = << >>
    /\ tables = << >>
    /\ tables_order = << >>
    /\ created = [ a \in Addrs |-> << >> ]
    /\ wire_summary = None
    /\ wire_proto = None
    /\ NoCalls
    /\ NoReadBuffer
    /\ NoQuery
    /\ NoHttp
    /\ NoGuard
    /\ NoColumns
    /\ NoIds
    /\ order_arg \in OrderArgs
    /\ order_obj = None
    /\ order_nexts = 0
    /\ ret = NoCall

SpecOrder == InitOrder /\ [][NextOrder]_vars

\* read buffer chunks built, grown and dropped on one registry
NextMetrics ==
    \/ Chunk_new
    \/ Chunk_new_from_row_group
    \/ Chunk_upsert_table_with_row_group
    \/ Chunk_upsert_table
    \/ Chunk_drop

InitMetrics == InitCatalog

SpecMetrics == InitMetrics /\ [][NextMetrics]_vars

\* queries of a read buffer chunk
NextReads ==
    \/ Chunk_read_filter
    \/ Chunk_column_names
    \/ Chunk_column_values
    \/ Chunk_read_filter_table_schema

InitReads ==
    /\ new_open("p1", 0)
    /\ writes = << >>
    /\ tables = << >>
    /\ tables_order = << >>
    /\ created = [ a \in Addrs |-> << >> ]
    /\ wire_summary = None
    /\ wire_proto = None
    /\ NoCalls
    /\ NoOrder
    /\ NoReadBuffer
    /\ NoHttp
    /\ NoGuard
    /\ NoColumns
    /\ NoIds
    /\ rb_table \in Tables
    /\ rb_query \in Queries
    /\ ret = NoCall

SpecReads == InitReads /\ [][NextReads]_vars

\* the HTTP write route
NextHttp == route_write_http_request

InitHttp == InitCatalog

SpecHttp == InitHttp /\ [][NextHttp]_vars

\* lifecycle transitions and queries of one chunk behind its lock
NextGuard ==
    \/ \E t \in LifecycleThreads :
           chunk_write(t) \/ mem_swap(t) \/ match_s(t) \/ drop_write_guard(t)
    \/ \E t \in QueryThreads :
           chunk_read(t) \/ read_state(t) \/ read_times(t) \/ drop_read_guard(t)

InitGuard == InitCatalog

SpecGuard == InitGuard /\ [][NextGuard]_vars

\* system.chunk_columns built from summaries whose column sizes come in
\* any order
NextColumns ==
    \/ assemble_chunk_columns
    \/ column_sizes_reordered

InitColumns ==
    /\ new_open("p1", 0)
    /\ writes = << >>
    /\ tables = << >>
    /\ tables_order = << >>
    /\ created = [ a \in Addrs |-> << >> ]
    /\ wire_summary = None
    /\ wire_proto = None
    /\ NoCalls
    /\ NoOrder
    /\ NoReadBuffer
    /\ NoQuery
    /\ NoHttp
    /\ NoGuard
    /\ NoIds
    /\ cc_chunks \in { << FirstChunk(columns, sizes), SecondChunk >> :
                         columns \in TableSummaryColumns, sizes \in column_sizes }
    /\ ret = NoCall

SpecColumns == InitColumns /\ [][NextColumns]_vars

\* ChunkIds made and rendered
NextIds ==
    \E x \in IdNames :
        \/ new_test(x)
        \/ new_random(x)
        \/ Display_fmt(x)
        \/ Debug_fmt(x)

InitIds == InitCatalog

SpecIds == InitIds /\ [][NextIds]_vars

(***************************************************************************)
(* Properties of the chunk lifecycle                                       *)
(***************************************************************************)
\* the six named states in lifecycle order
StateOrder == << "Open", "Closing", "Moving", "Moved",
                 "WritingToObjectStore", "WrittenToObjectStore" >>
NamedStates == { StateOrder[i] : i \in 1 .. Len(StateOrder) }
Rank(v) == CHOOSE i \in 1 .. Len(StateOrder) : StateOrder[i] = v
Earlier(a, b) == a \in NamedStates /\ b \in NamedStates /\ Rank(a) < Rank(b)

SetOps == { "set_closing", "set_moving", "set_moved",
            "set_writing_to_object_store", "set_written_to_object_store" }

\* the states the transition table of the specification allows each set_* from
LegalFrom(op) ==
    CASE op = "set_closing" -> {"Open"}
      [] op = "set_moving" -> {"Open", "Closing"}
      [] op = "set_moved" -> {"Moving"}
      [] op = "set_writing_to_object_store" -> {"Moved"}
      [] op = "set_written_to_object_store" -> {"WritingToObjectStore"}

IsInternalChunkState(r) ==
    r.kind = "Err" /\ r.err # None /\ r.err[1].error = "InternalChunkState"

\* C1: set_moving succeeds iff the chunk is Open or Closing and leaves it
\* Moving; set_moved succeeds iff it is Moving and leaves it Moved;
\* set_writing_to_object_store succeeds iff it is Moved and leaves it
\* WritingToObjectStore; set_written_to_object_store succeeds iff it is
\* WritingToObjectStore and leaves it WrittenToObjectStore.
C1_Transitions ==
    [][ /\ ret'.op = "set_moving" =>
            /\ (ret'.kind = "Ok") <=> (Variant(state) \in {"Open", "Closing"})
            /\ ret'.kind = "Ok" => Variant(state') = "Moving"
        /\ ret'.op = "set_moved" =>
            /\ (ret'.kind = "Ok") <=> (Variant(state) = "Moving")
            /\ ret'.kind = "Ok" => Variant(state') = "Moved"
        /\ ret'.op = "set_writing_to_object_store" =>
            /\ (ret'.kind = "Ok") <=> (Variant(state) = "Moved")
            /\ ret'.kind = "Ok" => Variant(state') = "WritingToObjectStore"
        /\ ret'.op = "set_written_to_object_store" =>
            /\ (ret'.kind = "Ok") <=> (Variant(state) = "WritingToObjectStore")
            /\ ret'.kind = "Ok" => Variant(state') = "WrittenToObjectStore"
      ]_vars

\* a chunk that has gone through all four transitions, the last one just now
C1_Witness ==
    /\ ret.op = "set_written_to_object_store"
    /\ ret.kind = "Ok"
    /\ Variant(state) = "WrittenToObjectStore"

\* C2: set_closing moves an Open chunk to Closing, and called in any other
\* state, Closing included, it returns an InternalChunkState error.
C2_SetClosingOnlyFromOpen ==
    [][ ret'.op = "set_closing" =>
            IF Variant(state) = "Open"
              THEN ret'.kind = "Ok" /\ Variant(state') = "Closing"
              ELSE IsInternalChunkState(ret')
      ]_vars

\* C3: a set_* call in a state that is not legal for it returns an
\* InternalChunkState error, leaves the state exactly as it was, and the
\* error names that state and the chunk's own partition key and id.
C3_IllegalCallFailsAndRestores ==
    [][ (ret'.op \in SetOps /\ Variant(state) \notin LegalFrom(ret'.op)) =>
            /\ IsInternalChunkState(ret')
            /\ state' = state
            /\ ret'.err[1].actual = ChunkState_name(state)
            /\ ret'.err[1].partition_key = partition_key
            /\ ret'.err[1].chunk_id = id
      ]_vars

\* C4: no call moves the chunk to an earlier state of the lifecycle order,
\* every successful call that changes the state moves it to a strictly later
\* one, and a chunk left without a named state never gets one back.
C4_ForwardProgression ==
    [][ /\ ~ Earlier(Variant(state'), Variant(state))
        /\ (ret'.kind = "Ok" /\ Variant(state') # Variant(state)) =>
               Earlier(Variant(state), Variant(state'))
        /\ Variant(state) \notin NamedStates => state' = state
      ]_vars

\* a successful transition has just taken the chunk out of Closing
C4_Witness ==
    /\ ret.op = "set_moving"
    /\ ret.kind = "Ok"
    /\ time_closing # None
    /\ Variant(state) = "Moving"

\* C5: after every call, whether it returned a value, an error or aborted,
\* the state of the chunk is not Invalid.
C5_NeverInvalid == Variant(state) # "Invalid"

\* C6: record_write is accepted in every state and leaves the state alone;
\* it sets time_of_first_write only when it is unset and always sets
\* time_of_last_write, so time_of_first_write is the time of the first call
\* and time_of_last_write the time of the latest.
C6_RecordWrite ==
    /\ [](/\ writes = << >> =>
                time_of_first_write = None /\ time_of_last_write = None
          /\ writes # << >> =>
                /\ time_of_first_write = Some(writes[1])
                /\ time_of_last_write = Some(writes[Len(writes)])
          /\ Len(writes) < MaxWrites => ENABLED record_write)
    /\ [][ ret'.op = "record_write" =>
              /\ ret'.kind = "Ok"
              /\ state' = state
              /\ time_closing' = time_closing
              /\ time_of_first_write # None =>
                     time_of_first_write' = time_of_first_write
              /\ time_of_last_write' = Some(writes'[Len(writes')])
         ]_vars

\* two writes at different clock readings, the later one into a Moved chunk
C6_Witness ==
    /\ ret.op = "record_write"
    /\ Len(writes) >= 2
    /\ writes[1] # writes[Len(writes)]
    /\ Variant(state) = "Moved"

\* C7: time_closing is unset until a set_closing succeeds, that call sets
\* it, and nothing changes or clears it afterwards.
C7_TimeClosingOnce ==
    /\ time_closing = None
    /\ [][ /\ time_closing # None => time_closing' = time_closing
           /\ time_closing' # time_closing =>
                  ret'.op = "set_closing" /\ ret'.kind = "Ok"
           /\ (ret'.op = "set_closing" /\ ret'.kind = "Ok") =>
                  time_closing = None /\ time_closing' # None
         ]_vars

\* a second set_closing was attempted on a chunk whose time_closing is set
C7_Witness ==
    /\ time_closing # None
    /\ ret.op = "set_closing"
    /\ ret.kind # "Ok"

(***************************************************************************)
(* Properties of the partitions of the catalog                             *)
(***************************************************************************)
PartitionsOf(t) == IF t \in DOMAIN tables THEN DOMAIN tables[t] ELSE {}
ExistingAddrs == { a \in Addrs : HasPartition(a[1], a[2]) }
ChunksOf(a) == tables[a[1]][a[2]].chunks

C9_ChunkOrderIncreasing ==
    \A a \in Addrs :
        \A i, j \in 1 .. Len(created[a]) :
            i < j => U32_lt(created[a][i].order, created[a][j].order)

\* a partition created a chunk, dropped it and created another one
C9_Witness ==
    \E a \in ExistingAddrs :
        /\ Len(created[a]) >= 2
        /\ created[a][1] \notin ChunksOf(a)
        /\ created[a][Len(created[a])] \in ChunksOf(a)

\* C10: drop_chunk with an id that is not in the partition returns a
\* ChunkNotFound error and leaves the chunks of the partition unchanged.
C10_DropMissingChunk ==
    [][ ret'.op = "drop_chunk" =>
            IF ret'.kind = "Ok"
              THEN \* a drop that succeeds took a chunk the partition held
                   \E a \in ExistingAddrs :
                       \E c \in ChunksOf(a) :
                           tables' = [ tables EXCEPT ![a[1]][a[2]].chunks =
                                           { d \in @ : d.id # c.id } ]
              ELSE /\ ret'.kind = "Err"
                   /\ ret'.err[1].error = "ChunkNotFound"
                   /\ HasPartition(ret'.err[1].table, ret'.err[1].partition)
                   /\ \A c \in tables[ret'.err[1].table][ret'.err[1].partition].chunks :
                          c.id # ret'.err[1].chunk_id
                   /\ tables' = tables
      ]_vars

\* drop_chunk has just failed on a partition that holds a chunk
C10_Witness ==
    /\ ret.op = "drop_chunk"
    /\ ret.kind = "Err"
    /\ ret.err[1].error = "ChunkNotFound"
    /\ tables[ret.err[1].table][ret.err[1].partition].chunks # {}

\* all chunks of the catalog, each with its table and partition key
AllChunks ==
    UNION { { [ table |-> a[1], partition |-> a[2], id |-> c.id, order |-> c.order ] :
              c \in ChunksOf(a) } : a \in ExistingAddrs }

\* C11: a drop_chunk that succeeds removes exactly one chunk of one
\* partition: a lookup of its id in that partition then finds nothing, and
\* every other chunk of that partition and every other partition is as before.
C11_DropRemovesExactlyThatChunk ==
    [][ (ret'.op = "drop_chunk" /\ ret'.kind = "Ok") =>
            \E a \in ExistingAddrs :
                \E c \in ChunksOf(a) :
                    /\ ChunksOf(a)' = ChunksOf(a) \ {c}
                    /\ Catalog_chunk_result("chunk", a[1], a[2], c.id)'.kind = "Err"
                    /\ Catalog_chunk_result("chunk", a[1], a[2], c.id)'.err[1].error
                           = "ChunkNotFound"
                    /\ tables[a[1]][a[2]].next_chunk_order' =
                           tables[a[1]][a[2]].next_chunk_order
                    /\ DOMAIN tables' = DOMAIN tables
                    /\ \A t \in DOMAIN tables : DOMAIN tables'[t] = DOMAIN tables[t]
                    /\ \A b \in ExistingAddrs \ {a} :
                           tables'[b[1]][b[2]] = tables[b[1]][b[2]]
                    /\ AllChunks' = AllChunks \
                           { [ table |-> a[1], partition |-> a[2],
                               id |-> c.id, order |-> c.order ] }
      ]_vars

\* a drop has just succeeded in a partition that still holds another chunk
C11_Witness ==
    /\ ret.op = "drop_chunk"
    /\ ret.kind = "Ok"
    /\ \E a \in ExistingAddrs :
           /\ ChunksOf(a) # {}
           /\ Len(created[a]) > Cardinality(ChunksOf(a))

\* C12: partition(t, k) returns TableNotFound(t) when there is no table t and
\* PartitionNotFound(k, t) when t has no partition k; chunk(t, k, id) returns
\* the same errors and ChunkNotFound(id, k, t) when the partition has no
\* such chunk; the lookups succeed otherwise and change nothing.
C12_LookupErrors ==
    /\ [](\A t \in TableNames, k \in PartitionKeys :
            LET p == Catalog_partition_result("partition", t, k) IN
            /\ t \notin DOMAIN tables =>
                   p = Err("partition", [ error |-> "TableNotFound", table |-> t ])
            /\ (t \in DOMAIN tables /\ k \notin DOMAIN tables[t]) =>
                   p = Err("partition", [ error |-> "PartitionNotFound",
                                          partition |-> k, table |-> t ])
            /\ HasPartition(t, k) => p = Ok("partition", Some(<< t, k >>))
            /\ \A i \in IdSpace :
                   LET c == Catalog_chunk_result("chunk", t, k, i) IN
                   /\ ~ HasPartition(t, k) => c.kind = "Err" /\ c.err = p.err
                   /\ (HasPartition(t, k) /\ \A d \in ChunksOf(<< t, k >>) : d.id # i) =>
                          c = Err("chunk", [ error |-> "ChunkNotFound", chunk_id |-> i,
                                             partition |-> k, table |-> t ])
                   /\ (HasPartition(t, k) /\ \E d \in ChunksOf(<< t, k >>) : d.id = i) =>
                          /\ c.kind = "Ok"
                          /\ c.val[1].id = i
                          /\ c.val[1].table = t
                          /\ c.val[1].partition = k
                          /\ [ id |-> i, order |-> c.val[1].order ] \in ChunksOf(<< t, k >>))
    /\ [][ ret'.op \in {"table", "partition", "chunk"} => tables' = tables ]_vars

\* chunk() has just missed in a partition that exists and holds other
\* chunks, in a catalog one of whose tables does not exist
C12_Witness ==
    /\ ret.op = "chunk"
    /\ ret.kind = "Err"
    /\ ret.err[1].error = "ChunkNotFound"
    /\ ChunksOf(<< ret.err[1].table, ret.err[1].partition >>) # {}
    /\ DOMAIN tables # TableNames

(***************************************************************************)
(* Properties of the catalog listings                                      *)
(***************************************************************************)
Filters == {AllTables} \cup { NamedTables(S) : S \in NameSets }
KeyFilters == {None} \cup { Some(k) : k \in PartitionKeys }

\* the chunks a filter and a partition key select
Selected(filter, key) ==
    { c \in AllChunks :
        /\ filter.kind = "AllTables" \/ c.table \in filter.names
        /\ key = None \/ c.partition = key[1] }


\* C13: filtered_chunks returns exactly one result per chunk whose table
\* passes the filter and whose partition key is the requested one, names of
\* the filter that match no table are skipped, an empty set of names selects
\* nothing, and chunk_summaries is filtered_chunks(AllTables, None, summary).
C13_FilteredChunks ==
    /\ \A filter \in Filters, key \in KeyFilters :
         LET r == filtered_chunks_result(filter, key) IN
         /\ Len(r) = Cardinality(Selected(filter, key))
         /\ Range(r) = Selected(filter, key)
    /\ \A key \in KeyFilters :
         filtered_chunks_result(NamedTables({}), key) = << >>
    /\ Len(chunk_summaries_result) = Cardinality(AllChunks)
    /\ Range(chunk_summaries_result) = AllChunks
    /\ ret.op = "filtered_chunks" =>
         \E filter \in Filters, key \in KeyFilters :
            /\ ret.kind = "Ok"
            /\ Len(ret.val) = Cardinality(Selected(filter, key))
            /\ Range(ret.val) = Selected(filter, key)
    /\ ret.op = "chunk_summaries" =>
         /\ Len(ret.val) = Cardinality(AllChunks)
         /\ Range(ret.val) = AllChunks

\* filtered_chunks has just returned one chunk of a catalog that holds a
\* second one, and only one table of the two names exists
C13_Witness ==
    /\ ret.op = "filtered_chunks"
    /\ Len(ret.val) = 1
    /\ Cardinality(AllChunks) = 2
    /\ Cardinality(DOMAIN tables) = 1

\* C14 as stated: table_names lists the tables in sort order by key
C14_SortedByKey ==
    ret.op = "table_names" => ret.val = InOrder(TableNameOrder, DOMAIN tables)

\* C14: table_names lists every table exactly once, and table_names and the
\* partition summaries of a catalog that is not changed stay the same
\* sequence; the order of the tables is the iteration order of the hash map,
\* which need not be the sort order of the keys.
C14_DeterministicListing ==
    [][ /\ table_names_result' \in Perms(DOMAIN tables')
        /\ tables' = tables =>
             /\ table_names_result' = table_names_result
             /\ partition_summaries_result' = partition_summaries_result ]_vars

\* table_names has just listed two tables against the sort order of their keys
C14_Witness ==
    /\ ret.op = "table_names"
    /\ ret.val = << "t2", "t1" >>

(***************************************************************************)
(* Properties of the wire conversion                                       *)
(***************************************************************************)
\* the chunks of the catalog at the instant Catalog.tables is tbls
chunks_at(tbls) ==
    UNION { UNION { { [ table |-> t, partition |-> k, id |-> c.id, order |-> c.order ] :
                      c \in tbls[t][k].chunks } : k \in DOMAIN tbls[t] } : t \in DOMAIN tbls }

\* the thread p has returned from filtered_chunks; pc[p].acc is what it returned
Returned(p) == pc[p].at = "idle" /\ pc[p].op = "filtered_chunks"

\* the partitions of the catalog at the instant Catalog.tables is tbls
partitions_at(tbls) == { << t, k >> : t \in DOMAIN tbls, k \in PartitionKeys } \cap
                       UNION { { << t, k >> : k \in DOMAIN tbls[t] } : t \in DOMAIN tbls }

\* C15 as stated: what a traversal under the root read lock returns is the
\* chunk set the catalog had at one single instant of the traversal.
C15_SingleInstant ==
    \A p \in Procs :
        Returned(p) => \E tbls \in snaps[p] : pc[p].acc = chunks_at(tbls)

\* C15: while a traversal holds the root read lock the set of tables and
\* partitions does not change, and for every partition the chunks it
\* returns are the chunks that partition had at one instant of the
\* traversal; the instants of two partitions may differ.
C15_SnapshotPerPartition ==
    \A p \in Procs :
        Returned(p) =>
            /\ \A x \in snaps[p], y \in snaps[p] : partitions_at(x) = partitions_at(y)
            /\ \A x \in snaps[p] : \A a \in partitions_at(x) :
                   \E tbls \in snaps[p] :
                       { c \in pc[p].acc : c.table = a[1] /\ c.partition = a[2] }
                           = { c \in chunks_at(tbls) : c.table = a[1] /\ c.partition = a[2] }

\* a traversal returned chunks after the catalog changed under it
C15_Witness ==
    \E p \in Procs :
        /\ Returned(p)
        /\ Cardinality(snaps[p]) >= 2
        /\ pc[p].acc # {}

\* the thread p waits for a lock another thread holds
Blocked(p) ==
    /\ pc[p].want # None
    /\ ~ RwLock_can(pc[p].want[1].lock, pc[p].want[1].mode)

\* the threads holding the lock l
Holders(l) == locks[l].readers \cup { q \in Procs : locks[l].writer = Some(q) }

\* C16 as stated: no operation holds a lock while it is blocked on a lock
\* lower in the hierarchy that a foreign operation holds.
C16_NoLockHeldWhileBlocked ==
    \A p \in Procs : Blocked(p) => pc[p].held = << >>

\* C16: an operation blocked on a lock holds only locks strictly above it
\* in the hierarchy, and no holder of the awaited lock is itself blocked on
\* a lock the waiting operation holds.
C16_BlockedOnlyDownward ==
    \A p \in Procs :
        Blocked(p) =>
            /\ \A i \in 1 .. Len(pc[p].held) :
                   Level(pc[p].held[i].lock) < Level(pc[p].want[1].lock)
            /\ \A q \in Holders(pc[p].want[1].lock) \ {p} :
                   ~ ( Blocked(q) /\ p \in Holders(pc[q].want[1].lock) )

\* a traversal holding the root lock waits for a partition a writer holds
C16_Witness ==
    \E p \in Procs :
        /\ Blocked(p)
        /\ pc[p].held = << Request(LockRoot, "read") >>
        /\ pc[p].want[1].lock[1] = "partition"

\* locks are held, and requested, root first, then partition, then chunk
TreeOrder ==
    \A p \in Procs :
        /\ \A i \in 1 .. Len(pc[p].held) : \A j \in 1 .. Len(pc[p].held) :
               i < j => Level(pc[p].held[i].lock) < Level(pc[p].held[j].lock)
        /\ pc[p].want # None =>
               \A i \in 1 .. Len(pc[p].held) :
                   Level(pc[p].held[i].lock) < Level(pc[p].want[1].lock)

\* C17: every catalog operation takes its locks in tree order and never
\* requests a lock above or beside one it holds, and under fair scheduling
\* every operation that entered the catalog returns.
C17_TreeOrderAndProgress ==
    /\ []TreeOrder
    /\ \A p \in Procs : (pc[p].at # "idle") ~> (pc[p].at = "idle")

\* every call was made, all returned, and a creation ran during a traversal
C17_Witness ==
    /\ budget = 0
    /\ \A p \in Procs : pc[p].at = "idle"
    /\ \E p \in Procs, q \in Procs :
           /\ pc[p].op = "create_open_chunk"
           /\ Returned(q)
           /\ Cardinality(snaps[q]) >= 2

\* C18: decoding the message that encodes a summary without a
\* CompactingObjectStore action gives back that summary, equal in every
\* field, an absent time_of_last_access staying absent.
C18_RoundTrip ==
    ( /\ ret.op = "decode"
      /\ wire_summary # None
      /\ \/ wire_summary[1].lifecycle_action = None
         \/ wire_summary[1].lifecycle_action[1].action # "CompactingObjectStore" )
    => /\ ret.kind = "Ok"
       /\ ret.val = wire_summary[1]
       /\ \A f \in DOMAIN wire_summary[1] : ret.val[f] = wire_summary[1][f]

\* the encoding of a summary with an action in progress and without a last
\* access has just been decoded
C18_Witness ==
    /\ ret.op = "decode"
    /\ ret.kind = "Ok"
    /\ wire_summary # None
    /\ wire_summary[1].time_of_last_access = None
    /\ wire_summary[1].lifecycle_action = Some(LifecycleAction("Persisting"))
    /\ wire_summary[1].time_of_first_write # wire_summary[1].time_of_last_write

\* C19: the 16 target bytes of a wire lifecycle action decide the decoded
\* value only under the CompactingObjectStore tag, where the decoded action
\* carries exactly them and the encoding of CompactingObjectStore(id) emits
\* the bytes of id; under every other tag the value is the same for all
\* targets, and the Unspecified tag decodes to no action.
C19_TargetOnlyForCompactingObjectStore ==
    /\ \A a \in WireActions \ {"ACTION_COMPACTING_OBJECT_STORE"} :
         \A b1, b2 \in WireTargets16 \cup RandomUuids :
            Option_ChunkLifecycleAction_try_from([ action |-> a, target_chunk_id |-> b1 ])
              = Option_ChunkLifecycleAction_try_from([ action |-> a, target_chunk_id |-> b2 ])
    /\ \A b \in WireTargets16 \cup RandomUuids :
         /\ Option_ChunkLifecycleAction_try_from(
                [ action |-> "ACTION_COMPACTING_OBJECT_STORE", target_chunk_id |-> b ]).val
              = Some(CompactingObjectStore(ChunkId(b)))
         /\ Option_ChunkLifecycleAction_try_from(
                [ action |-> "ACTION_UNSPECIFIED", target_chunk_id |-> b ]).val = None
    /\ \A n \in TestIds, r \in RandomUuids :
         management_ChunkLifecycleAction_from(
             Some(CompactingObjectStore(ChunkId_new_test(n))), r).target_chunk_id
           = Bytes_from_ChunkId(ChunkId_new_test(n))
    /\ ( /\ ret.op = "decode"
         /\ ret.kind = "Ok" )
       => LET m == wire_proto[1].lifecycle_action[1] IN
          ret.val.lifecycle_action =
            CASE m.action = "ACTION_COMPACTING_OBJECT_STORE" ->
                     Some(CompactingObjectStore(ChunkId(m.target_chunk_id)))
              [] m.action = "ACTION_PERSISTING" -> Some(LifecycleAction("Persisting"))
              [] m.action = "ACTION_COMPACTING" -> Some(LifecycleAction("Compacting"))
              [] m.action = "ACTION_DROPPING" -> Some(LifecycleAction("Dropping"))
              [] m.action = "ACTION_LOADING_READ_BUFFER" ->
                     Some(LifecycleAction("LoadingReadBuffer"))
              [] OTHER -> None

\* a message with the CompactingObjectStore tag has just been decoded to an
\* action that carries its target, which is not the id of the chunk
C19_Witness ==
    /\ ret.op = "decode"
    /\ ret.kind = "Ok"
    /\ wire_proto[1].lifecycle_action[1].action = "ACTION_COMPACTING_OBJECT_STORE"
    /\ ret.val.lifecycle_action[1].chunk_id.uuid
         = wire_proto[1].lifecycle_action[1].target_chunk_id
    /\ ret.val.lifecycle_action[1].chunk_id # ret.val.id

\* the fields of a message that make it unacceptable
Offending(proto) ==
    { f \in { "time_of_last_access", "time_of_first_write", "time_of_last_write" } :
        proto[f] # None /\ proto[f][1].seconds < 0 }
      \cup { f \in { "time_of_first_write", "time_of_last_write", "lifecycle_action" } :
               proto[f] = None }
      \cup { f \in {"storage"} :
               proto.storage \in { "CHUNK_STORAGE_UNSPECIFIED", "CHUNK_STORAGE_UNKNOWN" } }
      \cup { f \in {"order"} : proto.order = U32(0) }
      \cup { f \in {"id"} : Len(proto.id) # UuidLen }

\* C20: a message with an Unspecified storage, an order of zero, a missing
\* first or last write time, a missing lifecycle action or a negative
\* timestamp is rejected with a FieldViolation that names such a field, and
\* a message whose only gap is the last access time decodes to a summary
\* without one.
C20_DefectsRejected ==
    ret.op = "decode" =>
        IF Offending(wire_proto[1]) # {}
          THEN /\ ret.kind = "Err"
               /\ ret.val = None
               /\ ret.err[1].error = "FieldViolation"
               /\ ret.err[1].field \in Offending(wire_proto[1])
          ELSE wire_proto[1].time_of_last_access = None =>
                 /\ ret.kind = "Ok"
                 /\ ret.val.time_of_last_access = None

\* C21: a message whose id, or whose lifecycle action's target_chunk_id, is
\* not exactly 16 bytes long is rejected with a FieldViolation that carries
\* a field name and a description, whatever the action tag.
C21_MalformedIdsRejected ==
    ( /\ ret.op = "decode"
      /\ \/ Len(wire_proto[1].id) # UuidLen
         \/ /\ wire_proto[1].lifecycle_action # None
            /\ Len(wire_proto[1].lifecycle_action[1].target_chunk_id) # UuidLen )
    => /\ ret.kind = "Err"
       /\ ret.err[1].error = "FieldViolation"
       /\ ret.err[1].field # ""
       /\ ret.err[1].description # ""

\* the value of b less the value of a, for orders at most a carry apart
U32_diff(a, b) == (b[1] - a[1]) * Half + (b[2] - a[2])

\* C22: ChunkOrder::new(0) yields nothing and new(n) for n >= 1 yields an
\* order whose get() is n; next() of an order below MAX returns the order
\* whose value is exactly one greater, never zero and never a smaller
\* value, and next() at MAX fails without returning an order.
C22_ChunkOrderNonZero ==
    [][ /\ ret'.op = "ChunkOrder::new" =>
             /\ (order_arg' = U32(0)) <=> (ret'.val = None)
             /\ ret'.val # None => ChunkOrder_get(ret'.val[1]) = order_arg'
        /\ order_obj' # None => order_obj'[1] # U32(0)
        /\ ret'.op = "ChunkOrder::get" => ret'.val = order_obj'[1] /\ ret'.val # U32(0)
        /\ ( ret'.op = "ChunkOrder::next" /\ order_nexts' # order_nexts ) =>
             IF order_obj[1] = ChunkOrder_MAX
               THEN ret'.kind = "Panic" /\ ret'.val = None /\ order_obj' = order_obj
               ELSE /\ ret'.kind = "Ok"
                    /\ ret'.val = order_obj'
                    /\ U32_diff(order_obj[1], order_obj'[1]) = 1
                    /\ U32_lt(order_obj[1], order_obj'[1])
                    /\ order_obj'[1] # U32(0) ]_vars

\* next() was called on ChunkOrder::MAX, reached from MAX - 1, and failed
C22_Witness ==
    /\ ret.op = "ChunkOrder::next"
    /\ ret.kind = "Panic"
    /\ order_obj = Some(ChunkOrder_MAX)
    /\ order_nexts = 2
    /\ order_arg # ChunkOrder_MAX

\* the chunks alive whose metrics are registered with the registry
Registered == { c \in Slots : rb_chunks[c] # None /\ rb_chunks[c][1].metrics.registered }

\* the sum of f over the set S
RECURSIVE SumOver(_, _)
SumOver(S, f) ==
    IF S = {} THEN 0
    ELSE LET x == CHOOSE y \in S : TRUE IN f[x] + SumOver(S \ {x}, f)

\* what the row groups of the registered chunks alive amount to on gauge g
Held(g) ==
    SumOver(Registered,
            [ c \in Registered |->
                SumOver(1 .. Len(rb_chunks[c][1].table),
                        [ n \in 1 .. Len(rb_chunks[c][1].table) |->
                            update_column_storage_statistics(
                                ZeroGauges,
                                column_storage_statistics(rb_chunks[c][1].table[n]))[g] ]) ])

\* C23: every row group added to a chunk, at construction or by an upsert,
\* raises the row-group gauge by one and the column gauges by its
\* statistics, no addition lowers a gauge, and a drop takes back exactly
\* what the chunk added: every gauge equals what the row groups of the
\* live chunks sharing the registry amount to.
C23_GaugesTrackRowGroups ==
    /\ \A g \in Gauges : rb_registry[g] = Held(g)
    /\ rb_registry[<< "read_buffer_row_group_total" >>]
         = SumOver(Registered, [ c \in Registered |-> Len(rb_chunks[c][1].table) ])

\* C24: column_values with Selection::All returns UnsupportedOperation for
\* every predicate and every accumulator, an invalid predicate included: the
\* check of the selection comes first. With Selection::Some an invalid
\* predicate yields a table error.
C24_ColumnValuesRejectsAll ==
    ret.op = "column_values" =>
        IF rb_query.columns.kind = "All"
          THEN /\ ret.kind = "Err"
               /\ ret.val = None
               /\ ret.err[1].error = "UnsupportedOperation"
          ELSE ~ predicate_is_valid(rb_query.predicate) =>
                   /\ ret.kind = "Err"
                   /\ ret.err[1].error = "TableError"

\* column_values was asked for all columns with a predicate that compares
\* a column with a literal of the wrong type, and answered
\* UnsupportedOperation
C24_Witness ==
    /\ ret.op = "column_values"
    /\ rb_query.columns.kind = "All"
    /\ ~ predicate_is_valid(rb_query.predicate)
    /\ rb_query.dst_values # << >>
    /\ ret.kind = "Err"
    /\ ret.err[1].error = "UnsupportedOperation"

\* the positions of the requested names that name no column of the table
MissingAt(names) == { i \in 1 .. Len(names) : names[i] \notin Range(Columns) }

\* C25: read_filter_table_schema(Some(names)) fails with ColumnDoesNotExist
\* for the first name in request order that is no column, and builds no
\* schema; otherwise the schema has exactly the requested names in the
\* requested order. Selection::All yields every column.
C25_SchemaInRequestedOrder ==
    ret.op = "read_filter_table_schema" =>
        LET names == rb_query.columns.names IN
        IF rb_query.columns.kind = "All"
          THEN ret.kind = "Ok" /\ ret.val = Columns
          ELSE IF MissingAt(names) # {}
            THEN /\ ret.kind = "Err"
                 /\ ret.val = None
                 /\ ret.err[1].error = "ColumnDoesNotExist"
                 /\ \E i \in MissingAt(names) :
                        /\ \A j \in MissingAt(names) : i <= j
                        /\ ret.err[1].column_name = names[i]
            ELSE ret.kind = "Ok" /\ ret.val = names

\* a schema was asked for with two names that are no columns after one that
\* is, and the error names the first of the two
C25_Witness ==
    /\ ret.op = "read_filter_table_schema"
    /\ rb_query.columns = Selection_Some(<< "env", "zone", "random column name" >>)
    /\ ret.kind = "Err"
    /\ ret.err[1].column_name = "zone"

\* the rows of the batches, one batch after the other
RECURSIVE rows_of(_)
rows_of(batches) ==
    IF batches = << >> THEN << >> ELSE Head(batches) \o rows_of(Tail(batches))

\* the rows of the row groups of the table, one row group after the other
RECURSIVE table_rows(_)
table_rows(table) ==
    IF table = << >> THEN << >> ELSE Head(table) \o table_rows(Tail(table))

\* whether a row is to be returned for the query q
Wanted(row, q) ==
    /\ row_matches(row, q.predicate)
    /\ \A n \in 1 .. Len(q.negated_predicates) : ~ row_matches(row, q.negated_predicates[n])

\* the row with the selected columns only
Projected(row, q) == [ c \in selected_columns(q.columns) |-> row[c] ]

\* the number of rows read_filter returns for the predicate P and the
\* negated predicates N
Count(P, N) ==
    Len(rows_of(Chunk_read_filter_result(
                    rb_table, [ rb_query EXCEPT !.predicate = P,
                                                !.negated_predicates = N ]).val))

\* the number of rows matching P and one of the negated predicates N, by
\* queries without negated predicates
CountDeleted(P, N) ==
    CASE Len(N) = 0 -> 0
      [] Len(N) = 1 -> Count(P \o N[1], << >>)
      [] Len(N) = 2 -> Count(P \o N[1], << >>) + Count(P \o N[2], << >>)
                         - Count(P \o N[1] \o N[2], << >>)

\* whether every predicate of the query is valid
AllValid(q) ==
    /\ predicate_is_valid(q.predicate)
    /\ \A n \in 1 .. Len(q.negated_predicates) : predicate_is_valid(q.negated_predicates[n])

\* the rows among the first n of the sequence that are wanted
WantedBefore(rows, n, q) == Cardinality({ i \in 1 .. n : Wanted(rows[i], q) })

\* C26: the rows read_filter(P, N) returns are the rows that match P and
\* match no member of N; their number and the number of rows of
\* read_filter(P /\ (n1 \/ ...), []) add up to the number of rows of
\* read_filter(P, []); a negated predicate that matches every row leaves no
\* row.
C26_NegatedSubtractUnion ==
    ( ret.op = "read_filter" /\ AllValid(rb_query) ) =>
        LET got == rows_of(ret.val)
            all == table_rows(rb_table)
        IN /\ ret.kind = "Ok"
           /\ Len(got) = WantedBefore(all, Len(all), rb_query)
           /\ \A i \in 1 .. Len(all) :
                  Wanted(all[i], rb_query) =>
                      got[WantedBefore(all, i, rb_query)] = Projected(all[i], rb_query)
           /\ Len(got) + CountDeleted(rb_query.predicate, rb_query.negated_predicates)
                = Count(rb_query.predicate, << >>)
           /\ Predicate_default \in Range(rb_query.negated_predicates) => ret.val = << >>

\* read_filter ran with two negated predicates both of which match rows
\* that match the predicate, some by both, and returned rows
C26_Witness ==
    /\ ret.op = "read_filter"
    /\ ret.kind = "Ok"
    /\ Len(rb_query.negated_predicates) = 2
    /\ rb_query.negated_predicates[1] # rb_query.negated_predicates[2]
    /\ Count(rb_query.predicate \o rb_query.negated_predicates[1], << >>) > 0
    /\ Count(rb_query.predicate \o rb_query.negated_predicates[2], << >>) > 0
    /\ Count(rb_query.predicate \o rb_query.negated_predicates[1]
                                \o rb_query.negated_predicates[2], << >>) > 0
    /\ ret.val # << >>
    /\ Len(rows_of(ret.val)) < Count(rb_query.predicate, << >>)

\* C27: a literal of the wrong type in the predicate or in any negated
\* predicate fails the whole query: read_filter, column_names and
\* column_values return an error and no part of a result.
C27_InvalidPredicateFailsQuery ==
    ( \/ /\ ret.op \in { "read_filter", "column_names", "column_values" }
         /\ ~ predicate_is_valid(rb_query.predicate)
      \/ /\ ret.op \in { "read_filter", "column_names" }
         /\ ~ AllValid(rb_query) )
    => /\ ret.kind = "Err"
       /\ ret.val = None

\* column_names was called with a valid predicate that matches rows, a
\* valid first and an invalid second negated predicate, and failed
C27_Witness ==
    /\ ret.op = "column_names"
    /\ rb_query.predicate = Predicate_new(<< BinaryExpr_from("region", "=", Str("west")) >>)
    /\ Len(rb_query.negated_predicates) = 2
    /\ predicate_is_valid(rb_query.negated_predicates[1])
    /\ ~ predicate_is_valid(rb_query.negated_predicates[2])
    /\ rb_query.dst_names # {}
    /\ ret.kind = "Err"
    /\ ret.err[1].error = "TableError"

\* the row groups of the table with a row that is wanted
Kept(q) == { n \in 1 .. Len(rb_table) : \E i \in 1 .. Len(rb_table[n]) : Wanted(rb_table[n][i], q) }

\* the k-th of them in insertion order
KeptAt(q, k) == CHOOSE n \in Kept(q) : Cardinality({ m \in Kept(q) : m < n }) = k - 1

\* the query and the chunk of test::read_filter
TestQuery ==
    /\ rb_table = << RowGroup_from(gen_recordbatch(100)), RowGroup_from(gen_recordbatch(200)),
                     RowGroup_from(gen_recordbatch(300)) >>
    /\ rb_query.predicate
         = Predicate_with_time_range(<< BinaryExpr_from("env", "=", Str("us-west")) >>, 100, 205)
    /\ rb_query.negated_predicates = << >>
    /\ "time" \in selected_columns(rb_query.columns)

\* C28: read_filter yields at most one batch per row group, in the
\* insertion order of the row groups, each batch holding the surviving rows
\* of its row group in row order; a row group without a surviving row yields
\* no batch; the empty predicate without negated predicates yields every
\* row; env = 'us-west' with time in [100, 205) over the row groups of times
\* {100,200,300}, {200,400,600}, {300,600,900} yields exactly two batches
\* with the times [100] and [200].
C28_OneBatchPerRowGroup ==
    ( ret.op = "read_filter" /\ ret.kind = "Ok" ) =>
        /\ Len(ret.val) = Cardinality(Kept(rb_query))
        /\ Len(ret.val) <= Len(rb_table)
        /\ \A k \in 1 .. Len(ret.val) :
               LET rg == rb_table[KeptAt(rb_query, k)] IN
               /\ ret.val[k] # << >>
               /\ Len(ret.val[k]) = WantedBefore(rg, Len(rg), rb_query)
               /\ \A i \in 1 .. Len(rg) :
                      Wanted(rg[i], rb_query) =>
                          ret.val[k][WantedBefore(rg, i, rb_query)] = Projected(rg[i], rb_query)
        /\ ( rb_query.predicate = Predicate_default /\ rb_query.negated_predicates = << >> ) =>
               /\ Len(ret.val) = Len(rb_table)
               /\ \A n \in 1 .. Len(rb_table) :
                      ret.val[n] = [ i \in 1 .. Len(rb_table[n]) |-> Projected(rb_table[n][i], rb_query) ]
        /\ TestQuery =>
               /\ Len(ret.val) = 2
               /\ [ i \in 1 .. Len(ret.val[1]) |-> ret.val[1][i].time ] = << Some(100) >>
               /\ [ i \in 1 .. Len(ret.val[2]) |-> ret.val[2][i].time ] = << Some(200) >>

\* the query of test::read_filter ran on the chunk of three row groups and
\* returned two batches, the third row group yielding none
C28_Witness ==
    /\ ret.op = "read_filter"
    /\ ret.kind = "Ok"
    /\ TestQuery
    /\ Len(ret.val) = 2
    /\ Len(rb_table) = 3

\* the request handled last is a write with a query string that names an
\* org and a bucket of a database name, and a body that can be read
Readable(req) ==
    /\ req.method = "POST" /\ req.path = "/api/v2/write"
    /\ req.query # None
    /\ WriteInfo_from_str(req.query[1]) # None
    /\ req.query[1] # "bucket=My_Bucket&org=MyOrg"
    /\ req.body \notin { "too large", "not utf8" }

\* the answer is the error of the kind and the status code given
Answers(r, kind, status) ==
    /\ r.kind = "Err"
    /\ r.val = None
    /\ r.err[1].api = kind
    /\ r.err[1].status = status

\* C29: every outcome of POST /api/v2/write has its response: a write that
\* succeeds gives 204 with an empty body; a missing or unparsable query
\* string gives an invalid error; a line-protocol parse error gives an
\* invalid error; a database the server does not know gives not-found
\* (404); an empty payload gives 204 and ServerType::write is not invoked;
\* any other failure of the write gives an internal error.
C29_WriteRouteResponses ==
    [][ LET req == http_req'[1]
            r == ret'
            invoked == http_writes' # http_writes
        IN ( req.method = "POST" /\ req.path = "/api/v2/write" ) =>
           /\ r.kind = "Ok" => r.val = [ routed |-> TRUE, status |-> 204, body |-> "" ]
           /\ ( req.query = None \/ req.query \in { Some("%"), Some("org=MyOrg") } )
                  => Answers(r, "invalid", 400) /\ ~ invoked
           /\ ( Readable(req) /\ req.body = "cpu bar" )
                  => Answers(r, "invalid", 400) /\ ~ invoked
           /\ ( Readable(req) /\ req.body = "" )
                  => r.kind = "Ok" /\ ~ invoked /\ http_lp_metrics' = http_lp_metrics
           /\ ( Readable(req) /\ req.body \notin { "", "cpu bar" } ) =>
                  /\ invoked
                  /\ req.query = Some("bucket=NotMyBucket&org=MyOrg")
                         => Answers(r, "not_found", 404)
                  /\ req.query = Some("bucket=MyBucket&org=MyOrg")
                         => r.kind = "Ok" \/ Answers(r, "internal_error", 500)
                  /\ req.body = "cpu bar=\"incompatible\" 10"
                         => r.kind = "Err" ]_vars

\* after a write that succeeded, the write of a line to a database the
\* server does not know was handed to the server and answered with 404
C29_Witness ==
    /\ http_req # None
    /\ http_req[1].query = Some("bucket=NotMyBucket&org=MyOrg")
    /\ http_writes = << "MyOrg_MyBucket", "MyOrg_NotMyBucket" >>
    /\ http_lp_metrics = << [ db_name |-> "MyOrg_MyBucket", ok |-> TRUE ] >>
    /\ ret.kind = "Err"
    /\ ret.err[1].status = 404

\* C30 as stated: whatever the interleaving of lifecycle transitions under
\* the write lock with readers under the read lock, a reader sees the chunk
\* as it was when it got the lock: one of the six named states, never
\* Invalid, and state and time_closing of the same moment.
C30_ReadersSeeWholeStates ==
    \A t \in QueryThreads :
        chunk_pc[t].at # "idle" =>
            LET before == chunk_pc[t].before[1]
                seen == chunk_pc[t].seen
            IN /\ Variant(before.state) \in NamedStates
               /\ seen.state # None =>
                      /\ seen.state[1] = before.state
                      /\ Variant(seen.state[1]) # "Invalid"
               /\ seen.time_closing # None => seen.time_closing[1] = before.time_closing

\* the thread p leaves get_or_create_partition in this step
Returns_get_or_create_partition(p) ==
    /\ pc[p].op = "get_or_create_partition"
    /\ pc[p].at # "idle"
    /\ pc[p].want = None
    /\ pc'[p].at = "idle"

\* C31: get_or_create_table and get_or_create_partition are idempotent and
\* atomic: under the write lock of the tables, with no other thread inside
\* them, a call for a table and partition that exist leaves the catalog as it
\* is, chunks included, and a call for a new name inserts exactly the missing
\* table and the one new, empty partition and changes no other entry; after
\* the call the table and the partition are found.  Concurrent calls for the
\* same names so end with one table and one partition, which both hold.
C31_GetOrCreateIdempotent ==
    [][ \A p \in Procs :
          Returns_get_or_create_partition(p) =>
            LET t == pc[p].arg[1]
                k == pc[p].arg[2]
            IN /\ locks[LockRoot].writer = Some(p)
               /\ locks[LockRoot].readers = {}
               /\ HasPartition(t, k) => tables' = tables
               /\ ~ HasPartition(t, k) =>
                    /\ DOMAIN tables' = DOMAIN tables \cup {t}
                    /\ \A u \in DOMAIN tables' :
                           DOMAIN tables'[u]
                             = ( IF u \in DOMAIN tables THEN DOMAIN tables[u] ELSE {} )
                                 \cup ( IF u = t THEN {k} ELSE {} )
                    /\ \A u \in DOMAIN tables : \A j \in DOMAIN tables[u] :
                           tables'[u][j] = tables[u][j]
                    /\ tables'[t][k] = Partition_new
               /\ t \in DOMAIN tables'
               /\ k \in DOMAIN tables'[t] ]_vars

\* two calls were made, both get_or_create_partition: one created the
\* partition p1 of the new table t2 and returned, the other holds the write
\* lock of the tables for the same names and finds them there
C31_Witness ==
    \E p, q \in Procs :
        /\ p # q
        /\ budget = MaxOps - 2
        /\ pc[p].op = "get_or_create_partition" /\ pc[p].at = "idle"
        /\ pc[q].op = "get_or_create_partition" /\ pc[q].at # "idle"
        /\ pc[q].want = None
        /\ pc[q].arg = << "t2", "p1" >>
        /\ locks[LockRoot].writer = Some(q)
        /\ HasPartition("t2", "p1")
        /\ DOMAIN tables = { "t1", "t2" }
        /\ DOMAIN tables["t2"] = { "p1" }

\* the locks of the kind given that the thread p holds
HeldOf(p, kind) == { i \in 1 .. Len(pc[p].held) : pc[p].held[i].lock[1] = kind }

\* C32: filtered_chunks, chunks and persistence_summaries hold at most one
\* partition lock and at most one chunk lock at any moment: a chunk lock is
\* asked for only when none is held and under the lock of the partition of
\* the chunk, a partition lock only when neither a partition nor a chunk is
\* locked, and chunks and persistence_summaries lock no chunk at all; so no
\* traversal ever holds two chunk locks in any order.
C32_OneChunkLockAtATime ==
    \A p \in Procs :
        pc[p].op \in { "filtered_chunks", "chunks", "persistence_summaries" } =>
            /\ Cardinality(HeldOf(p, "partition")) <= 1
            /\ Cardinality(HeldOf(p, "chunk")) <= 1
            /\ ( pc[p].want # None /\ pc[p].want[1].lock[1] = "chunk" ) =>
                   /\ HeldOf(p, "chunk") = {}
                   /\ Cardinality(HeldOf(p, "partition")) = 1
            /\ ( pc[p].want # None /\ pc[p].want[1].lock[1] = "partition" ) =>
                   HeldOf(p, "partition") = {} /\ HeldOf(p, "chunk") = {}
            /\ pc[p].op # "filtered_chunks" =>
                   /\ HeldOf(p, "chunk") = {}
                   /\ pc[p].want # None => pc[p].want[1].lock[1] # "chunk"

\* a traversal holds the lock of the second chunk of a partition of two
\* chunks, having read the first and let it go, while another thread is
\* inside Catalog::chunks
C32_Witness ==
    \E p, q \in Procs :
        /\ pc[p].op = "filtered_chunks"
        /\ pc[p].at = "chunk"
        /\ pc[p].want = None
        /\ Cardinality(HeldOf(p, "chunk")) = 1
        /\ Cardinality(tables[Head(pc[p].todo)[1]][Head(pc[p].todo)[2]].chunks) = 2
        /\ \E c \in pc[p].acc :
               << c.table, c.partition >> = Head(pc[p].todo)
        /\ pc[q].op = "chunks"
        /\ Cardinality(HeldOf(q, "partition")) = 1

\* C33: WrittenToObjectStore is terminal: in it every set_* call fails and
\* leaves the state, and record_write succeeds; every successful call that
\* changes the state takes the chunk to a state later in the order of the
\* six, so a chunk makes at most five such transitions.
C33_WrittenIsTerminal ==
    [][ /\ Variant(state) = "WrittenToObjectStore" =>
              /\ state' = state
              /\ ret'.op \in SetOps => IsInternalChunkState(ret')
              /\ ret'.op = "record_write" => ret'.kind = "Ok"
        /\ ( ret'.kind = "Ok" /\ state' # state ) =>
              /\ ret'.op \in SetOps
              /\ Variant(state) \in NamedStates
              /\ Variant(state') \in NamedStates
              /\ Rank(Variant(state)) + 1 <= Rank(Variant(state'))
              /\ Rank(Variant(state')) <= 6
      ]_vars

\* a chunk that went through Closing and was written to the object store
\* was asked to move again and refused
C33_Witness ==
    /\ Variant(state) = "WrittenToObjectStore"
    /\ time_closing # None
    /\ writes # << >>
    /\ ret.op = "set_moving"
    /\ ret.kind = "Err"

\* the fields of the chunk but its state and time_closing
Identity == << partition_key, id, time_of_first_write, time_of_last_write >>

\* C34 as stated: no set_* call changes the id, the partition key,
\* time_of_first_write or time_of_last_write, only a set_closing that
\* succeeds changes time_closing, and a call that fails changes no field at
\* all.
C34_TransitionsTouchOnlyState ==
    [][ ret'.op \in SetOps =>
          /\ Identity' = Identity
          /\ time_closing' # time_closing => ret'.op = "set_closing" /\ ret'.kind = "Ok"
          /\ ret'.kind # "Ok" => state' = state /\ time_closing' = time_closing
      ]_vars

\* C35: mutable_buffer returns the mutable buffer exactly when the chunk is
\* Open or Closing, in every other state it fails with an InternalChunkState
\* error that names the state the chunk is in, and it never changes the
\* state or a timestamp.
C35_MutableBufferOpenOrClosing ==
    [][ ret'.op = "mutable_buffer" =>
          /\ ( ret'.kind = "Ok" ) <=> ( Variant(state) \in { "Open", "Closing" } )
          /\ ret'.kind = "Ok" => ret'.val = Some(state[2])
          /\ ret'.kind # "Ok" =>
                /\ IsInternalChunkState(ret')
                /\ ret'.err[1].actual = ChunkState_name(state)
                /\ ret'.err[1].partition_key = partition_key
                /\ ret'.err[1].chunk_id = id
          /\ state' = state
          /\ Identity' = Identity
          /\ time_closing' = time_closing
      ]_vars

\* the mutable buffer of a written, Closing chunk was handed out
C35_Witness ==
    /\ ret.op = "mutable_buffer"
    /\ ret.kind = "Ok"
    /\ Variant(state) = "Closing"
    /\ time_of_last_write # None

\* the checks of the write route after the match of method and path, in
\* the order of the route, each named by the error of its failure
Checks ==
    << "ExpectedQueryString", "InvalidQueryString", "BucketMappingError",
       "ParseBody", "ReadingBodyAsUtf8", "ParsingLineProtocol" >>

\* the database the query string of the request names, if it names one
NamedDatabase(req) ==
    IF req.query = None \/ WriteInfo_from_str(req.query[1]) = None THEN None
    ELSE org_and_bucket_to_database(WriteInfo_from_str(req.query[1])[1].org,
                                    WriteInfo_from_str(req.query[1])[1].bucket)

\* the request fails the named step of the route
Fails(req, check) ==
    CASE check = "ExpectedQueryString" -> req.query = None
      [] check = "InvalidQueryString" ->
            req.query # None /\ WriteInfo_from_str(req.query[1]) = None
      [] check = "BucketMappingError" ->
            /\ req.query # None
            /\ WriteInfo_from_str(req.query[1]) # None
            /\ NamedDatabase(req) = None
      [] check = "ParseBody" -> req.body = "too large"
      [] check = "ReadingBodyAsUtf8" -> req.body = "not utf8"
      [] check = "ParsingLineProtocol" -> req.body = "cpu bar"

\* C36: the write route checks method and path, query string, org/bucket
\* mapping, body decoding, line protocol and then writes, and answers the
\* first check that fails; whether the database exists is found by the write
\* only, so a request to a database the server does not know gets 204 for
\* an empty body and an invalid error for an unparsable body, never 404; a
\* request that is not POST /api/v2/write is handed back as it came.
C36_ChecksInOrder ==
    [][ LET req == http_req'[1]
            r == ret'
            failing == { i \in DOMAIN Checks : Fails(req, Checks[i]) }
            first == CHOOSE i \in failing : \A j \in failing : i <= j
            unknown == NamedDatabase(req) # None /\ NamedDatabase(req)[1] \notin Databases
        IN IF req.method = "POST" /\ req.path = "/api/v2/write"
             THEN /\ failing # {} =>
                        /\ r.kind = "Err"
                        /\ r.err[1].error = Checks[first]
                        /\ http_writes' = http_writes
                  /\ ( failing = {} /\ req.body = "" ) =>
                        /\ r = NO_CONTENT
                        /\ http_writes' = http_writes
                  /\ ( failing = {} /\ req.body # "" ) =>
                        /\ http_writes' = Append(http_writes, NamedDatabase(req)[1])
                        /\ r.kind = "Err" => r.err[1].error \in { "DatabaseNotFound", "WritingPoints" }
                  /\ ( unknown /\ req.body = "" ) => r = NO_CONTENT
                  /\ ( unknown /\ req.body = "cpu bar" ) => Answers(r, "invalid", 400)
                  /\ ( unknown /\ r.kind = "Err" /\ r.err[1].status = 404 ) =>
                        http_writes' # http_writes
             ELSE /\ r = Ok("route_write_http_request", [ routed |-> FALSE, request |-> req ])
                  /\ http_writes' = http_writes
                  /\ http_lp_metrics' = http_lp_metrics
      ]_vars

\* an empty write to a database the server does not know was answered 204
\* without a call of the server
C36_Witness ==
    /\ http_req # None
    /\ http_req[1].method = "POST" /\ http_req[1].path = "/api/v2/write"
    /\ http_req[1].query = Some("bucket=NotMyBucket&org=MyOrg")
    /\ http_req[1].body = ""
    /\ ret = NO_CONTENT
    /\ "MyOrg_NotMyBucket" \notin Range(http_writes)

\* C37: the ingest metrics get one entry for a request whose write
\* succeeded, flagged a success, one for a request whose write failed with
\* another error than not-found, flagged a failure, and none for a request
\* that ended with not-found, an empty payload, a parse error or an earlier
\* failure; no entry ever names a database the server does not know.
C37_MetricsOncePerWrite ==
    [][ LET r == ret'
            db_name == http_writes'[Len(http_writes')]
        IN /\ IF http_writes' # http_writes /\ r = NO_CONTENT
                THEN http_lp_metrics' =
                         Append(http_lp_metrics, [ db_name |-> db_name, ok |-> TRUE ])
              ELSE IF r.kind = "Err" /\ r.err[1].error = "WritingPoints"
                THEN /\ http_writes' # http_writes
                     /\ http_lp_metrics' =
                            Append(http_lp_metrics, [ db_name |-> db_name, ok |-> FALSE ])
              ELSE http_lp_metrics' = http_lp_metrics
           /\ \A i \in DOMAIN http_lp_metrics' :
                  http_lp_metrics'[i].db_name \in Databases
      ]_vars

\* a write that the server refused was recorded as a failure, and the write
\* to a database the server does not know after it left no entry
C37_Witness ==
    /\ http_writes = << "MyOrg_MyBucket", "MyOrg_NotMyBucket" >>
    /\ http_lp_metrics = << [ db_name |-> "MyOrg_MyBucket", ok |-> FALSE ] >>
    /\ ret.kind = "Err"
    /\ ret.err[1].error = "DatabaseNotFound"

\* the sizes the chunk of the row gives the column of the row
SizesNamed(each) ==
    { e.memory_bytes : e \in { c \in Range(each.chunk_summary.columns) :
                                   c.name = each.column_summary.name } }

\* C38 as stated: system.chunk_columns has one row per chunk and column of
\* the chunk's table summary, in the order of the table summary; the
\* memory_bytes of a row is that of the chunk's size entry of the same
\* column name, null if there is none; and the rows are the same for every
\* order of the chunk's list of column sizes.
C38_SizesByName ==
    [][ ret'.op = "assemble_chunk_columns" =>
          LET batch == ret'.val[1]
              rows == EachColumn(cc_chunks')
          IN /\ \A array \in DOMAIN batch : DOMAIN batch[array] = DOMAIN rows
             /\ \A k \in DOMAIN rows :
                    /\ batch.chunk_id[k] = rows[k].chunk_summary.inner.id
                    /\ batch.column_name[k] = rows[k].column_summary.name
                    /\ batch.row_count[k] = rows[k].column_summary.total_count
                    /\ IF SizesNamed(rows[k]) = {}
                         THEN batch.memory_bytes[k] = None
                         ELSE batch.memory_bytes[k] \in { Some(b) : b \in SizesNamed(rows[k]) }
             /\ ret.op = "assemble_chunk_columns" => ret' = ret
      ]_vars

\* the text ChunkId(n) and the text ChunkId(uuid)
IntegerForm(n) == [ name |-> "ChunkId", form |-> "integer", field |-> n ]
UuidForm(uuid) == [ name |-> "ChunkId", form |-> "uuid", field |-> uuid ]

\* C40 as stated: the Debug and the Display rendering of new_test(n) is the
\* integer form ChunkId(n) for every n, that of an id from new() is the
\* UUID form, and new_test(a) = new_test(b) exactly when a = b.
C40_RenderingByConstruction ==
    /\ ret.op \in { "Debug", "Display" } =>
          LET made == chunk_ids[ret.val[1].of][1]
          IN /\ made.made_by = "new_test" => ret.val[1].text = IntegerForm(made.n[1])
             /\ made.made_by = "new" => ret.val[1].text = UuidForm(made.id.uuid)
    /\ \A x, y \in IdNames :
          ( /\ chunk_ids[x] # None /\ chunk_ids[y] # None
            /\ chunk_ids[x][1].made_by = "new_test"
            /\ chunk_ids[y][1].made_by = "new_test" ) =>
               ( chunk_ids[x][1].id = chunk_ids[y][1].id <=> chunk_ids[x][1].n = chunk_ids[y][1].n )

\* C39: the table of a read buffer chunk grows by appended row groups only:
\* an upsert raises row_groups() by one and rows() by the rows of the batch
\* added and leaves the row groups before it as they are, and nothing
\* lowers rows() or row_groups() of a chunk that lives on.
C39_TableOnlyGrows ==
    [][ \A c \in Slots :
          ( rb_chunks[c] # None /\ rb_chunks'[c] # None ) =>
             LET old == rb_chunks[c][1]
                 new == rb_chunks'[c][1]
                 upserted == /\ ret'.op \in { "Chunk::upsert_table",
                                              "Chunk::upsert_table_with_row_group" }
                             /\ ret'.val = c
                             /\ rb_chunks' # rb_chunks
             IN /\ Chunk_rows(old) <= Chunk_rows(new)
                /\ Chunk_row_groups(old) <= Chunk_row_groups(new)
                /\ upserted =>
                      /\ Chunk_row_groups(new) = Chunk_row_groups(old) + 1
                      /\ SubSeq(new.table, 1, Len(old.table)) = old.table
                      /\ Chunk_rows(new) = Chunk_rows(old) + Len(new.table[Len(new.table)])
                      /\ new.table[Len(new.table)] \in RowGroups
                /\ ~ upserted => new.table = old.table
      ]_vars

\* a second batch was upserted into a chunk next to its first one
C39_Witness ==
    \E c \in Slots :
        /\ rb_chunks[c] # None
        /\ ret.op = "Chunk::upsert_table"
        /\ ret.val = c
        /\ Chunk_row_groups(rb_chunks[c][1]) = 2
        /\ Chunk_rows(rb_chunks[c][1]) = 6
        /\ rb_chunks[c][1].table[1] # rb_chunks[c][1].table[2]

====
